---- MODULE Spec2Model ----
(***************************************************************************)
(* Unified Entity Cards (rust): the validator, the v1 <-> v2 converters,   *)
(* the structural diff and merge, and the asset walker, as operators over  *)
(* a model of serde_json::Value, driven by small call pipelines.           *)
(*                                                                         *)
(* serde_json::Value is a tagged record; an object is a function from its  *)
(* keys to its members (serde_json's Map with default features is a        *)
(* BTreeMap: key-sorted, compared by content).  Option::None is the value  *)
(* None.  A String is a TLA+ string; an error list is a sequence.          *)
(***************************************************************************)
EXTENDS Integers, Sequences, FiniteSets, TLC

\* card: the document an operation is called on; other: the second document
\* (merge's incoming, diff's right side); opts: the call's options;
\* pc: the pipeline's position; out: the results returned so far, by call.
VARIABLES pc, card, other, opts, out

vars == <<pc, card, other, opts, out>>

(***************************************************************************)
(* serde_json::Value                                                       *)
(***************************************************************************)
Null == [t |-> "null"]
Bool(b) == [t |-> "bool", v |-> b]
Num(n) == [t |-> "num", v |-> n]
Str(s) == [t |-> "str", v |-> s]
Arr(items) == [t |-> "arr", v |-> items]
Obj(map) == [t |-> "obj", v |-> map]
None == [t |-> "none"]

EmptyMap == [k \in {} |-> Null]

\* Map::insert, Map::remove, Map::get, Map::contains_key
Insert(map, key, value) == [k \in DOMAIN map \cup {key} |-> IF k = key THEN value ELSE map[k]]
Remove(map, key) == [k \in DOMAIN map \ {key} |-> map[k]]
MapGet(map, key) == IF key \in DOMAIN map THEN map[key] ELSE None
ContainsKey(map, key) == key \in DOMAIN map

\* Value::get(&str): a member of an object, None for anything else
Get(value, key) == IF value.t = "obj" THEN MapGet(value.v, key) ELSE None

\* Option<&Value>::and_then(Value::as_str) == Some(s)
IsStr(value, s) == value.t = "str" /\ value.v = s

\* str::starts_with
StartsWith(s, prefix) == Len(s) >= Len(prefix) /\ SubSeq(s, 1, Len(prefix)) = prefix

\* str::contains
StrContains(s, part) == \E i \in 1..(Len(s) - Len(part) + 1) : SubSeq(s, i, i + Len(part) - 1) = part

\* byte order of the characters the model's strings are made of
Ascii == " -./0123456789:ABCDEFGHIJKLMNOPQRSTUVWXYZ[]_abcdefghijklmnopqrstuvwxyz"
CharRank(c) == CHOOSE i \in 1..Len(Ascii) : SubSeq(Ascii, i, i) = c

\* String's Ord: lexicographic by byte
RECURSIVE StrLess(_, _)
StrLess(a, b) ==
    IF Len(b) = 0 THEN FALSE
    ELSE IF Len(a) = 0 THEN TRUE
    ELSE LET ca == CharRank(SubSeq(a, 1, 1))
             cb == CharRank(SubSeq(b, 1, 1))
         IN IF ca # cb THEN ca < cb
            ELSE StrLess(SubSeq(a, 2, Len(a)), SubSeq(b, 2, Len(b)))

\* the iteration order of a BTreeSet<String> / BTreeMap<String, _>
RECURSIVE Sorted(_)
Sorted(set) ==
    IF set = {} THEN <<>>
    ELSE LET least == CHOOSE x \in set : \A y \in set \ {x} : StrLess(x, y)
         IN <<least>> \o Sorted(set \ {least})

RECURSIVE Flatten(_)
Flatten(seqs) == IF seqs = <<>> THEN <<>> ELSE Head(seqs) \o Flatten(Tail(seqs))

SeqToSet(seq) == {seq[i] : i \in 1..Len(seq)}

(***************************************************************************)
(* utils.rs                                                                *)
(***************************************************************************)
SCHEMA_NAME == "UEC"
SCHEMA_VERSION == "1.0"
SCHEMA_VERSION_V2 == "2.0"

is_string(value) == value.t = "str"
is_number(value) == value.t = "num"
is_boolean(value) == value.t = "bool"
is_object(value) == value.t = "obj"

optional_string(value) == value.t \in {"none", "null", "str"}
optional_number(value) == value.t = "none" \/ is_number(value)
optional_boolean(value) == value.t = "none" \/ is_boolean(value)
optional_object(value) == value.t = "none" \/ is_object(value)

all_strings(items) == \A i \in 1..Len(items) : is_string(items[i])

optional_string_array(value) ==
    CASE value.t = "none" -> TRUE
      [] value.t = "arr" -> all_strings(value.v)
      [] OTHER -> FALSE

known_version(version) == version = SCHEMA_VERSION \/ version = SCHEMA_VERSION_V2

push_error(path, message) == path \o ": " \o message

\* `if !ok { push_error(errors, path, message) }`
Check(ok, path, message) == IF ok THEN <<>> ELSE <<push_error(path, message)>>

RECURSIVE normalize_value(_)
normalize_value(value) ==
    CASE value.t = "arr" -> Arr([i \in 1..Len(value.v) |-> normalize_value(value.v[i])])
      [] value.t = "obj" -> Obj([k \in DOMAIN value.v |-> normalize_value(value.v[k])])
      [] OTHER -> value

LocatorTypes == {"inline_base64", "remote_url", "asset_ref"}

is_asset_locator_object(value) ==
    LET type == Get(value, "type")
    IN type.t = "str" /\ type.v \in LocatorTypes

is_likely_asset_string(value) ==
    /\ value.t = "str"
    /\ \/ StartsWith(value.v, "http://")
       \/ StartsWith(value.v, "https://")
       \/ StartsWith(value.v, "data:")

(***************************************************************************)
(* validators.rs: each validator yields the errors it appends, in order.   *)
(***************************************************************************)
validate_asset_locator(value, path) ==
    IF value.t \in {"none", "null", "str"} THEN <<>>
    ELSE IF value.t # "obj" THEN <<push_error(path, "must be a string, object, or null")>>
    ELSE LET map == value.v
             value_type == MapGet(map, "type")
         IN IF ~(value_type.t = "str" /\ value_type.v \in LocatorTypes)
            THEN <<push_error(path \o ".type", "must be one of: inline_base64, remote_url, asset_ref")>>
            ELSE Check(optional_string(MapGet(map, "mimeType")), path \o ".mimeType", "must be a string if provided")
                 \o (CASE value_type.v = "inline_base64" ->
                            Check(is_string(MapGet(map, "data")), path \o ".data", "is required for inline_base64")
                       [] value_type.v = "remote_url" ->
                            Check(is_string(MapGet(map, "url")), path \o ".url", "is required for remote_url")
                       [] value_type.v = "asset_ref" ->
                            Check(is_string(MapGet(map, "assetId")), path \o ".assetId", "is required for asset_ref")
                       [] OTHER -> <<>>)

string_array_if_some(value) == value.t = "none" \/ (value.t = "arr" /\ all_strings(value.v))

validate_character_book_entry(entry, entry_path) ==
    IF entry.t # "obj" THEN <<push_error(entry_path, "must be an object")>>
    ELSE LET entry_map == entry.v
         IN Check(optional_string(MapGet(entry_map, "name")), entry_path \o ".name", "must be a string or null")
            \o Check(string_array_if_some(MapGet(entry_map, "keys")), entry_path \o ".keys", "must be an array of strings")
            \o Check(string_array_if_some(MapGet(entry_map, "secondary_keys")), entry_path \o ".secondary_keys", "must be an array of strings")
            \o Check(is_string(MapGet(entry_map, "content")), entry_path \o ".content", "must be a string")
            \o Check(optional_boolean(MapGet(entry_map, "enabled")), entry_path \o ".enabled", "must be a boolean")
            \o Check(optional_number(MapGet(entry_map, "insertion_order")), entry_path \o ".insertion_order", "must be a number")
            \o Check(optional_boolean(MapGet(entry_map, "case_sensitive")), entry_path \o ".case_sensitive", "must be a boolean")
            \o Check(optional_number(MapGet(entry_map, "priority")), entry_path \o ".priority", "must be a number")
            \o Check(optional_boolean(MapGet(entry_map, "constant")), entry_path \o ".constant", "must be a boolean")

validate_character_book(book) ==
    IF book.t \in {"none", "null"} THEN <<>>
    ELSE IF book.t # "obj" THEN <<push_error("payload.characterBook", "must be an object")>>
    ELSE LET book_map == book.v
             entries == MapGet(book_map, "entries")
         IN Check(optional_string(MapGet(book_map, "name")), "payload.characterBook.name", "must be a string or null")
            \o Check(optional_string(MapGet(book_map, "description")), "payload.characterBook.description", "must be a string or null")
            \o (IF entries.t = "none" THEN <<>>
                ELSE IF entries.t # "arr" THEN <<push_error("payload.characterBook.entries", "must be an array")>>
                ELSE Flatten([i \in 1..Len(entries.v) |->
                        validate_character_book_entry(entries.v[i],
                            "payload.characterBook.entries[" \o ToString(i - 1) \o "]")]))

validate_variant(variant, path) ==
    IF variant.t # "obj" THEN <<push_error(path, "must be an object")>>
    ELSE LET map == variant.v
         IN Check(is_string(MapGet(map, "id")), path \o ".id", "must be a string")
            \o Check(is_string(MapGet(map, "content")), path \o ".content", "must be a string")
            \o Check(is_number(MapGet(map, "createdAt")), path \o ".createdAt", "must be a number")

\* the errors of validate_scene_base; it returns false exactly when scene is no object
validate_scene_base(scene, path, strict) ==
    IF scene.t # "obj" THEN <<push_error(path, "must be an object")>>
    ELSE LET map == scene.v
             variants == MapGet(map, "variants")
         IN Check(is_string(MapGet(map, "id")), path \o ".id", "must be a string")
            \o Check(is_string(MapGet(map, "content")), path \o ".content", "must be a string")
            \o Check(optional_string(MapGet(map, "direction")), path \o ".direction", "must be a string")
            \o Check(optional_number(MapGet(map, "createdAt")), path \o ".createdAt", "must be a number")
            \o (IF variants.t = "none" THEN <<>>
                ELSE IF variants.t = "arr"
                THEN Flatten([i \in 1..Len(variants.v) |->
                        validate_variant(variants.v[i], path \o ".variants[" \o ToString(i - 1) \o "]")])
                ELSE <<push_error(path \o ".variants", "must be an array")>>)
            \o (IF strict
                THEN Check(is_string(MapGet(map, "id")), path \o ".id", "is required")
                     \o Check(is_string(MapGet(map, "content")), path \o ".content", "is required")
                ELSE <<>>)

validate_scene(scene, path, strict) ==
    validate_scene_base(scene, path, strict)
    \o (IF scene.t # "obj" THEN <<>>
        ELSE LET selected == MapGet(scene.v, "selectedVariantId")
             IN Check(selected.t \in {"none", "str", "null"}, path \o ".selectedVariantId", "must be a string or null"))

validate_scene_v2(scene, path, strict) ==
    validate_scene_base(scene, path, strict)
    \o (IF scene.t # "obj" THEN <<>>
        ELSE LET selected == MapGet(scene.v, "selectedVariant")
             IN Check(selected.t = "none" \/ (selected.t = "num" /\ selected.v = 0) \/ selected.t = "str",
                      path \o ".selectedVariant", "must be 0 or a variant ID string"))

validate_voice_config_v1(voice_config) ==
    IF voice_config.t = "none" THEN <<>>
    ELSE IF voice_config.t # "obj" THEN <<push_error("payload.voiceConfig", "must be an object")>>
    ELSE LET map == voice_config.v
         IN Check(is_string(MapGet(map, "source")), "payload.voiceConfig.source", "must be a string")
            \o Check(is_string(MapGet(map, "providerId")), "payload.voiceConfig.providerId", "must be a string")
            \o Check(is_string(MapGet(map, "voiceId")), "payload.voiceConfig.voiceId", "must be a string")

validate_voice_config_v2(voice_config) ==
    IF voice_config.t = "none" THEN <<>>
    ELSE IF voice_config.t # "obj" THEN <<push_error("payload.voiceConfig", "must be an object")>>
    ELSE LET map == voice_config.v
         IN Check(is_string(MapGet(map, "source")), "payload.voiceConfig.source", "must be a string")
            \o Check(optional_string(MapGet(map, "providerId")), "payload.voiceConfig.providerId", "must be a string if provided")
            \o Check(optional_string(MapGet(map, "voiceId")), "payload.voiceConfig.voiceId", "must be a string if provided")
            \o Check(optional_string(MapGet(map, "userVoiceId")), "payload.voiceConfig.userVoiceId", "must be a string if provided")
            \o Check(optional_string(MapGet(map, "modelId")), "payload.voiceConfig.modelId", "must be a string if provided")
            \o Check(optional_string(MapGet(map, "voiceName")), "payload.voiceConfig.voiceName", "must be a string if provided")

\* [errors, version]: version is the schema's version string, None when there is none
validate_schema(schema) ==
    IF schema.t # "obj"
    THEN [errors |-> <<push_error("schema", "must be an object")>>, version |-> None]
    ELSE LET map == schema.v
             name == MapGet(map, "name")
             version == MapGet(map, "version")
             compat == MapGet(map, "compat")
         IN [errors |->
                (IF ~is_string(name) THEN <<push_error("schema.name", "must be a string")>>
                 ELSE IF name.v # SCHEMA_NAME THEN <<push_error("schema.name", "must be \"UEC\"")>>
                 ELSE <<>>)
                \o (IF ~is_string(version) THEN <<push_error("schema.version", "must be a string")>>
                    ELSE IF ~known_version(version.v)
                    THEN <<push_error("schema.version", "unknown version \"" \o version.v \o "\"")>>
                    ELSE <<>>)
                \o Check(compat.t = "none" \/ is_string(compat), "schema.compat", "must be a string if provided"),
             version |-> IF is_string(version) THEN version ELSE None]

\* null is let through like an absent field
validate_app_specific_settings_null_ok(settings) ==
    IF settings.t \in {"none", "null"} THEN <<>>
    ELSE Check(is_object(settings), "app_specific_settings", "must be an object")

validate_app_specific_settings(settings) ==
    IF settings.t = "none" THEN <<>>
    ELSE Check(is_object(settings), "app_specific_settings", "must be an object")

validate_meta(meta) ==
    IF meta.t = "none" THEN <<>>
    ELSE IF meta.t # "obj" THEN <<push_error("meta", "must be an object")>>
    ELSE LET map == meta.v
             authors == MapGet(map, "authors")
         IN Check(optional_number(MapGet(map, "createdAt")), "meta.createdAt", "must be a number")
            \o Check(optional_number(MapGet(map, "updatedAt")), "meta.updatedAt", "must be a number")
            \o Check(optional_string(MapGet(map, "source")), "meta.source", "must be a string")
            \o Check(string_array_if_some(authors), "meta.authors", "must be an array of strings")
            \o Check(optional_string(MapGet(map, "license")), "meta.license", "must be a string")

\* strict mode reports the required fields in place of the type checks
validate_meta_required_first(meta, strict) ==
    IF strict
    THEN <<push_error("meta.originalCreatedAt", "is required in strict mode"),
           push_error("meta.originalUpdatedAt", "is required in strict mode")>>
    ELSE validate_meta(meta)

\* the v1 rule set only, whatever the strictness
validate_meta_v1_only(meta, strict) == validate_meta(meta)

validate_meta_v2(meta, strict) ==
    validate_meta(meta)
    \o (IF strict /\ ~is_object(meta)
        THEN <<push_error("meta.originalCreatedAt", "is required in strict mode"),
               push_error("meta.originalUpdatedAt", "is required in strict mode")>>
        ELSE IF meta.t # "obj" THEN <<>>
        ELSE LET map == meta.v
             IN Check(optional_number(MapGet(map, "originalCreatedAt")), "meta.originalCreatedAt", "must be a number")
                \o Check(optional_number(MapGet(map, "originalUpdatedAt")), "meta.originalUpdatedAt", "must be a number")
                \o Check(optional_string(MapGet(map, "originalSource")), "meta.originalSource", "must be a string")
                \o (IF strict
                    THEN Check(is_number(MapGet(map, "originalCreatedAt")), "meta.originalCreatedAt", "is required in strict mode")
                         \o Check(is_number(MapGet(map, "originalUpdatedAt")), "meta.originalUpdatedAt", "is required in strict mode")
                    ELSE <<>>))


scenes_errors(map, strict) ==
    LET scenes == MapGet(map, "scenes")
    IN IF scenes.t = "arr"
       THEN Flatten([i \in 1..Len(scenes.v) |->
                validate_scene(scenes.v[i], "payload.scenes[" \o ToString(i - 1) \o "]", strict)])
       ELSE IF scenes.t # "none" THEN <<push_error("payload.scenes", "must be an array")>>
       ELSE <<>>

validate_character_payload_v1(payload, strict) ==
    IF payload.t # "obj" THEN <<push_error("payload", "must be an object")>>
    ELSE LET map == payload.v
         IN Check(is_string(MapGet(map, "id")), "payload.id", "must be a string")
            \o Check(is_string(MapGet(map, "name")), "payload.name", "must be a string")
            \o Check(optional_string(MapGet(map, "description")), "payload.description", "must be a string")
            \o Check(optional_string(MapGet(map, "definitions")), "payload.definitions", "must be a string")
            \o Check(optional_string_array(MapGet(map, "tags")), "payload.tags", "must be an array of strings")
            \o Check(optional_string(MapGet(map, "avatar")), "payload.avatar", "must be a string or null")
            \o Check(optional_string(MapGet(map, "chatBackground")), "payload.chatBackground", "must be a string or null")
            \o Check(optional_string_array(MapGet(map, "rules")), "payload.rules", "must be an array of strings")
            \o scenes_errors(map, strict)
            \o Check(optional_string(MapGet(map, "defaultSceneId")), "payload.defaultSceneId", "must be a string or null")
            \o Check(optional_string(MapGet(map, "defaultModelId")), "payload.defaultModelId", "must be a string or null")
            \o Check(optional_string(MapGet(map, "systemPrompt")), "payload.systemPrompt", "must be a string or null")
            \o validate_voice_config_v1(MapGet(map, "voiceConfig"))
            \o Check(optional_boolean(MapGet(map, "voiceAutoplay")), "payload.voiceAutoplay", "must be a boolean")
            \o Check(optional_number(MapGet(map, "createdAt")), "payload.createdAt", "must be a number")
            \o Check(optional_number(MapGet(map, "updatedAt")), "payload.updatedAt", "must be a number")
            \o (IF strict
                THEN Check(is_string(MapGet(map, "description")), "payload.description", "is required in strict mode")
                     \o Check(MapGet(map, "rules").t = "arr", "payload.rules", "is required in strict mode")
                     \o Check(MapGet(map, "scenes").t = "arr", "payload.scenes", "is required in strict mode")
                     \o Check(is_number(MapGet(map, "createdAt")), "payload.createdAt", "is required in strict mode")
                     \o Check(is_number(MapGet(map, "updatedAt")), "payload.updatedAt", "is required in strict mode")
                ELSE <<>>)

validate_persona_payload_v1(payload, strict) ==
    IF payload.t # "obj" THEN <<push_error("payload", "must be an object")>>
    ELSE LET map == payload.v
         IN Check(is_string(MapGet(map, "id")), "payload.id", "must be a string")
            \o Check(is_string(MapGet(map, "title")), "payload.title", "must be a string")
            \o Check(optional_string(MapGet(map, "description")), "payload.description", "must be a string")
            \o Check(optional_string(MapGet(map, "avatar")), "payload.avatar", "must be a string or null")
            \o Check(optional_boolean(MapGet(map, "isDefault")), "payload.isDefault", "must be a boolean")
            \o Check(optional_number(MapGet(map, "createdAt")), "payload.createdAt", "must be a number")
            \o Check(optional_number(MapGet(map, "updatedAt")), "payload.updatedAt", "must be a number")
            \o (IF strict
                THEN Check(is_string(MapGet(map, "description")), "payload.description", "is required in strict mode")
                     \o Check(is_number(MapGet(map, "createdAt")), "payload.createdAt", "is required in strict mode")
                     \o Check(is_number(MapGet(map, "updatedAt")), "payload.updatedAt", "is required in strict mode")
                ELSE <<>>)

validate_character_payload_v2(payload, strict) ==
    IF payload.t # "obj" THEN <<push_error("payload", "must be an object")>>
    ELSE LET map == payload.v
             scene == MapGet(map, "scene")
         IN Check(is_string(MapGet(map, "id")), "payload.id", "must be a string")
            \o Check(is_string(MapGet(map, "name")), "payload.name", "must be a string")
            \o Check(optional_string(MapGet(map, "description")), "payload.description", "must be a string")
            \o Check(optional_string(MapGet(map, "definitions")), "payload.definitions", "must be a string")
            \o Check(optional_string_array(MapGet(map, "tags")), "payload.tags", "must be an array of strings")
            \o validate_asset_locator(MapGet(map, "avatar"), "payload.avatar")
            \o validate_asset_locator(MapGet(map, "chatBackground"), "payload.chatBackground")
            \o Check(~(strict /\ MapGet(map, "rules").t # "none"), "payload.rules",
                     "is not a valid field in v2; use systemPrompt or characterBook instead")
            \o (IF scene.t \notin {"none", "null"} THEN validate_scene_v2(scene, "payload.scene", strict) ELSE <<>>)
            \o Check(optional_string(MapGet(map, "defaultModelId")), "payload.defaultModelId", "must be a string or null")
            \o Check(optional_string(MapGet(map, "fallbackModelId")), "payload.fallbackModelId", "must be a string or null")
            \o Check(optional_string(MapGet(map, "systemPrompt")), "payload.systemPrompt", "must be a string or null")
            \o Check(optional_string(MapGet(map, "promptTemplateId")), "payload.promptTemplateId", "must be a string or null")
            \o Check(optional_string(MapGet(map, "nickname")), "payload.nickname", "must be a string or null")
            \o Check(optional_string(MapGet(map, "creator")), "payload.creator", "must be a string or null")
            \o Check(optional_string(MapGet(map, "creatorNotes")), "payload.creatorNotes", "must be a string or null")
            \o Check(optional_object(MapGet(map, "creatorNotesMultilingual")), "payload.creatorNotesMultilingual",
                     "must be an object if provided")
            \o Check(string_array_if_some(MapGet(map, "source")), "payload.source", "must be an array of strings")
            \o validate_voice_config_v2(MapGet(map, "voiceConfig"))
            \o Check(optional_boolean(MapGet(map, "voiceAutoplay")), "payload.voiceAutoplay", "must be a boolean")
            \o validate_character_book(MapGet(map, "characterBook"))
            \o Check(optional_number(MapGet(map, "createdAt")), "payload.createdAt", "must be a number")
            \o Check(optional_number(MapGet(map, "updatedAt")), "payload.updatedAt", "must be a number")
            \o (IF strict
                THEN Check(is_string(MapGet(map, "description")), "payload.description", "is required in strict mode")
                     \o Check(is_object(MapGet(map, "scene")), "payload.scene", "is required in strict mode")
                     \o Check(is_number(MapGet(map, "createdAt")), "payload.createdAt", "is required in strict mode")
                     \o Check(is_number(MapGet(map, "updatedAt")), "payload.updatedAt", "is required in strict mode")
                ELSE <<>>)

validate_persona_payload_v2(payload, strict) ==
    IF payload.t # "obj" THEN <<push_error("payload", "must be an object")>>
    ELSE LET map == payload.v
         IN Check(is_string(MapGet(map, "id")), "payload.id", "must be a string")
            \o Check(is_string(MapGet(map, "title")), "payload.title", "must be a string")
            \o Check(optional_string(MapGet(map, "description")), "payload.description", "must be a string")
            \o validate_asset_locator(MapGet(map, "avatar"), "payload.avatar")
            \o Check(optional_boolean(MapGet(map, "isDefault")), "payload.isDefault", "must be a boolean")
            \o Check(optional_number(MapGet(map, "createdAt")), "payload.createdAt", "must be a number")
            \o Check(optional_number(MapGet(map, "updatedAt")), "payload.updatedAt", "must be a number")
            \o (IF strict
                THEN Check(is_string(MapGet(map, "description")), "payload.description", "is required in strict mode")
                     \o Check(is_number(MapGet(map, "createdAt")), "payload.createdAt", "is required in strict mode")
                     \o Check(is_number(MapGet(map, "updatedAt")), "payload.updatedAt", "is required in strict mode")
                ELSE <<>>)

\* validate_uec's match on kind (lines 801-804)
kind_errors(kind) ==
    Check(kind.t = "str" /\ kind.v \in {"character", "persona"}, "kind", "must be \"character\" or \"persona\"")

\* the payload rule set chosen by kind alone, whatever the version
payload_errors_any_version(map, version, strict) ==
    LET payload == MapGet(map, "payload")
        kind == MapGet(map, "kind")
        is_v2 == IsStr(version, SCHEMA_VERSION_V2)
    IN IF ~is_object(payload) THEN <<push_error("payload", "must be an object")>>
       ELSE IF kind.t # "str" THEN <<>>
       ELSE IF kind.v = "character"
       THEN (IF is_v2 THEN validate_character_payload_v2(payload, strict)
             ELSE validate_character_payload_v1(payload, strict))
       ELSE IF kind.v = "persona"
       THEN (IF is_v2 THEN validate_persona_payload_v2(payload, strict)
             ELSE validate_persona_payload_v1(payload, strict))
       ELSE <<>>

\* validate_uec's match on payload (lines 809-830): the payload rule set is chosen
\* by kind and version, and is skipped when the version is not a known one
payload_errors(map, version, strict) ==
    LET payload == MapGet(map, "payload")
        kind == MapGet(map, "kind")
        is_v2 == IsStr(version, SCHEMA_VERSION_V2)
        is_known == version.t = "str" /\ known_version(version.v)
    IN IF ~is_object(payload) THEN <<push_error("payload", "must be an object")>>
       ELSE IF ~is_known THEN <<>>
       ELSE IF kind.t # "str" THEN <<>>
       ELSE IF kind.v = "character"
       THEN (IF is_v2 THEN validate_character_payload_v2(payload, strict)
             ELSE validate_character_payload_v1(payload, strict))
       ELSE IF kind.v = "persona"
       THEN (IF is_v2 THEN validate_persona_payload_v2(payload, strict)
             ELSE validate_persona_payload_v1(payload, strict))
       ELSE <<>>

\* validate_uec's extensions check (lines 840-842)
extensions_errors(extensions) ==
    Check(extensions.t = "none" \/ is_object(extensions), "extensions", "must be an object")

\* ValidationResult
validate_uec(value, strict) ==
    IF value.t # "obj"
    THEN [ok |-> FALSE, errors |-> <<push_error("root", "must be an object")>>]
    ELSE LET map == value.v
             schema == validate_schema(MapGet(map, "schema"))
             version == schema.version
             is_v2 == IsStr(version, SCHEMA_VERSION_V2)
             is_known == version.t = "str" /\ known_version(version.v)
             errors == schema.errors
                       \o kind_errors(MapGet(map, "kind"))
                       \o payload_errors(map, version, strict)
                       \o validate_app_specific_settings(MapGet(map, "app_specific_settings"))
                       \o (IF is_v2 /\ is_known
                           THEN validate_meta_v2(MapGet(map, "meta"), strict)
                           ELSE validate_meta(MapGet(map, "meta")))
                       \o extensions_errors(MapGet(map, "extensions"))
         IN [ok |-> errors = <<>>, errors |-> errors]

(***************************************************************************)
(* convert.rs                                                              *)
(***************************************************************************)
\* Result<_, String>
Ok(value) == [ok |-> TRUE, value |-> value]
Err(error) == [ok |-> FALSE, error |-> error]

\* [String]::join
RECURSIVE Join(_, _)
Join(strings, sep) ==
    IF strings = <<>> THEN ""
    ELSE IF Len(strings) = 1 THEN strings[1]
    ELSE strings[1] \o sep \o Join(Tail(strings), sep)

\* `card.get("schema").and_then(|schema| schema.get("version")).and_then(Value::as_str)`
schema_version(value) ==
    LET version == Get(Get(value, "schema"), "version")
    IN IF version.t = "str" THEN version ELSE None

\* `if let Some(schema) = next.get_mut("schema").and_then(Value::as_object_mut) { insert version }`
set_schema_version(value, version) ==
    IF value.t = "obj" /\ Get(value, "schema").t = "obj"
    THEN Obj(Insert(value.v, "schema", Obj(Insert(value.v["schema"].v, "version", Str(version)))))
    ELSE value

\* the first scene of the array, whatever the default id
pick_first_scene(payload, scene_items) == scene_items[1]

\* the scene the converter folds into payload.scene: the first whose id is the default
\* id, else the first of the array (lines 49-60)
pick_scene(payload, scene_items) ==
    LET default_id == MapGet(payload, "defaultSceneId")
        matching == {i \in 1..Len(scene_items) :
                        default_id.t = "str" /\ Get(scene_items[i], "id") = default_id}
    IN IF matching # {}
       THEN scene_items[CHOOSE i \in matching : \A j \in matching : i <= j]
       ELSE scene_items[1]

\* selectedVariantId renamed to selectedVariant, null mapped to 0 (lines 63-71)
scene_to_v2(picked_scene) ==
    LET selected == MapGet(picked_scene, "selectedVariantId")
        scene == Remove(picked_scene, "selectedVariantId")
    IN IF selected = None THEN scene
       ELSE IF selected.t = "null" THEN Insert(scene, "selectedVariant", Num(0))
       ELSE Insert(scene, "selectedVariant", selected)

\* scenes is removed and no scene is stored
fold_scenes_dropped(payload) == Remove(payload, "scenes")

\* scenes is removed only together with the storing of a scene
fold_scenes_when_stored(payload) ==
    LET scenes == MapGet(payload, "scenes")
    IN IF scenes.t = "arr" /\ Len(scenes.v) > 0 /\ pick_scene(payload, scenes.v).t = "obj"
       THEN Remove(Insert(payload, "scene", Obj(scene_to_v2(pick_scene(payload, scenes.v).v))), "scenes")
       ELSE payload

\* lines 45-77
fold_scenes(payload) ==
    LET scenes == MapGet(payload, "scenes")
    IN IF scenes = None THEN payload
       ELSE IF scenes.t = "arr" /\ Len(scenes.v) > 0
       THEN LET picked == pick_scene(payload, scenes.v)
            IN IF picked.t = "obj"
               THEN Remove(Insert(payload, "scene", Obj(scene_to_v2(picked.v))), "scenes")
               ELSE Remove(payload, "scenes")
       ELSE Remove(payload, "scenes")

ID_PREFIX == "_ID:"

\* the template id is extracted and systemPrompt is left as it was
extract_prompt_template_only(payload) ==
    LET system_prompt == MapGet(payload, "systemPrompt")
    IN IF system_prompt.t = "str" /\ StartsWith(system_prompt.v, ID_PREFIX)
       THEN Insert(payload, "promptTemplateId",
                   Str(SubSeq(system_prompt.v, Len(ID_PREFIX) + 1, Len(system_prompt.v))))
       ELSE payload

\* lines 81-89
extract_prompt_template(payload) ==
    LET system_prompt == MapGet(payload, "systemPrompt")
    IN IF system_prompt.t = "str" /\ StartsWith(system_prompt.v, ID_PREFIX)
       THEN Insert(Insert(payload, "promptTemplateId",
                          Str(SubSeq(system_prompt.v, Len(ID_PREFIX) + 1, Len(system_prompt.v)))),
                   "systemPrompt", Null)
       ELSE payload

\* lines 42-90
convert_payload(payload) ==
    extract_prompt_template(Remove(fold_scenes(Remove(payload, "rules")), "defaultSceneId"))

\* the copy overwrites a target that is already there
copy_always(meta, target, source, expected) ==
    IF /\ ContainsKey(meta, source)
       /\ IF expected = "number" THEN is_number(meta[source]) ELSE is_string(meta[source])
    THEN Insert(meta, target, meta[source])
    ELSE meta

\* one of the three copies of lines 99-118; the copied value must be a number for
\* the two dates and a string for the source
copy_once(meta, target, source, expected) ==
    IF /\ ~ContainsKey(meta, target)
       /\ ContainsKey(meta, source)
       /\ IF expected = "number" THEN is_number(meta[source]) ELSE is_string(meta[source])
    THEN Insert(meta, target, meta[source])
    ELSE meta

\* lines 92-118
convert_meta(value) ==
    LET meta == IF Get(value, "meta").t = "obj" THEN Get(value, "meta").v ELSE EmptyMap
    IN copy_once(copy_once(copy_once(meta,
            "originalCreatedAt", "createdAt", "number"),
            "originalUpdatedAt", "updatedAt", "number"),
            "originalSource", "source", "string")

\* any known version passes for the source version
has_known_version(value) ==
    schema_version(value).t = "str" /\ known_version(schema_version(value).v)

\* lines 20-26: `version == SCHEMA_VERSION`, an absent version read as ""
has_v1_version(value) == IsStr(schema_version(value), SCHEMA_VERSION)

convert_uec_v1_to_v2(value) ==
    IF ~is_object(value) THEN Err("card must be an object")
    ELSE LET validation == validate_uec(value, FALSE)
         IN IF ~validation.ok
            THEN Err("card must be a valid v1 UEC: " \o Join(validation.errors, "; "))
            ELSE IF ~has_v1_version(value)
            THEN Err("card must be schema version \"" \o SCHEMA_VERSION \o "\" to convert")
            ELSE LET versioned == set_schema_version(value, SCHEMA_VERSION_V2).v
                     payload == MapGet(versioned, "payload")
                     with_payload == IF payload.t = "obj"
                                     THEN Insert(versioned, "payload", Obj(convert_payload(payload.v)))
                                     ELSE versioned
                 IN Ok(Obj(Insert(with_payload, "meta", Obj(convert_meta(Obj(with_payload))))))

(***************************************************************************)
(* tools.rs                                                                *)
(***************************************************************************)
\* the default is inserted for an absent key only
default_object_when_absent(root, key) ==
    IF ContainsKey(root, key) THEN root ELSE Insert(root, key, Obj(EmptyMap))

\* `if !root.get(key).is_some_and(is_object) { root.insert(key, {}) }`
default_object(root, key) ==
    IF is_object(MapGet(root, key)) THEN root ELSE Insert(root, key, Obj(EmptyMap))

normalize_uec(value) ==
    LET normalized == normalize_value(value)
    IN IF normalized.t = "obj"
       THEN Obj(default_object(default_object(default_object(normalized.v,
                "app_specific_settings"), "meta"), "extensions"))
       ELSE normalized


\* a payload under conversion and the warnings pushed so far
Step(payload, warnings) == [payload |-> payload, warnings |-> warnings]

\* selectedVariant renamed to selectedVariantId, 0 mapped to null (lines 135-141)
scene_to_v1(scene_map) ==
    LET selected == MapGet(scene_map, "selectedVariant")
        scene == Remove(scene_map, "selectedVariant")
    IN IF selected = None THEN scene
       ELSE IF selected.t = "num" /\ selected.v = 0 THEN Insert(scene, "selectedVariantId", Null)
       ELSE Insert(scene, "selectedVariantId", selected)

\* lines 132-151
unfold_scene(payload) ==
    LET scene == MapGet(payload, "scene")
        removed == Remove(payload, "scene")
    IN IF scene.t # "obj" THEN removed
       ELSE LET scene_map == scene_to_v1(scene.v)
                scene_id == MapGet(scene_map, "id")
                with_scenes == Insert(removed, "scenes", Arr(<<Obj(scene_map)>>))
            IN IF scene_id = None THEN with_scenes
               ELSE Insert(with_scenes, "defaultSceneId", scene_id)

\* the template id replaces whatever systemPrompt holds
fold_prompt_template_over(step) ==
    LET prompt_template_id == MapGet(step.payload, "promptTemplateId")
        removed == Remove(step.payload, "promptTemplateId")
    IN IF prompt_template_id = None THEN step
       ELSE Step(IF prompt_template_id.t = "str"
                 THEN Insert(removed, "systemPrompt", Str(ID_PREFIX \o prompt_template_id.v))
                 ELSE removed,
                 Append(step.warnings,
                        "payload.promptTemplateId was mapped to v1 systemPrompt and then removed"))

\* lines 153-166
fold_prompt_template(step) ==
    LET prompt_template_id == MapGet(step.payload, "promptTemplateId")
        removed == Remove(step.payload, "promptTemplateId")
    IN IF prompt_template_id = None THEN step
       ELSE Step(IF MapGet(removed, "systemPrompt").t \in {"none", "null"} /\ prompt_template_id.t = "str"
                 THEN Insert(removed, "systemPrompt", Str(ID_PREFIX \o prompt_template_id.v))
                 ELSE removed,
                 Append(step.warnings,
                        "payload.promptTemplateId was mapped to v1 systemPrompt and then removed"))

removed_fields ==
    <<"fallbackModelId", "nickname", "creator", "creatorNotes", "creatorNotesMultilingual",
      "source", "characterBook">>

\* lines 178-185, fields i..7 of removed_fields
RECURSIVE remove_fields(_, _)
remove_fields(step, i) ==
    IF i > Len(removed_fields) THEN step
    ELSE LET field == removed_fields[i]
         IN remove_fields(
                IF ContainsKey(step.payload, field)
                THEN Step(Remove(step.payload, field),
                          Append(step.warnings,
                                 "payload." \o field \o " is not supported in v1 and was removed"))
                ELSE step,
                i + 1)

\* lines 187-189
synthesize_rules(payload, keep_rules) ==
    IF ~keep_rules /\ ~ContainsKey(payload, "rules")
    THEN Insert(payload, "rules", Arr(<<>>))
    ELSE payload

\* lines 131-190
downgrade_payload(payload, keep_rules) ==
    LET step == remove_fields(fold_prompt_template(Step(unfold_scene(payload), <<>>)), 1)
    IN Step(synthesize_rules(step.payload, keep_rules), step.warnings)

\* one of the three removals of lines 193-201; step.payload is the meta map
remove_meta(step, field) ==
    IF ContainsKey(step.payload, field)
    THEN Step(Remove(step.payload, field),
              Append(step.warnings, "meta." \o field \o " was removed for v1 compatibility"))
    ELSE step

\* lines 192-202
downgrade_meta(meta, warnings) ==
    remove_meta(remove_meta(remove_meta(Step(meta, warnings),
        "originalCreatedAt"), "originalUpdatedAt"), "originalSource")

\* DowngradeResult
Downgraded(value, warnings) == [ok |-> TRUE, card |-> value, warnings |-> warnings]

downgrade_uec(value, target_version, keep_rules) ==
    IF target_version # SCHEMA_VERSION THEN Err("unsupported target version: " \o target_version)
    ELSE LET version == schema_version(value)
         IN IF version = None THEN Err("card must be an object with a schema")
            ELSE IF version.v = SCHEMA_VERSION THEN Downgraded(normalize_uec(value), <<>>)
            ELSE IF version.v # SCHEMA_VERSION_V2 THEN Err("unsupported source version: " \o version.v)
            ELSE LET versioned == set_schema_version(value, SCHEMA_VERSION).v
                     payload == MapGet(versioned, "payload")
                     step == IF payload.t = "obj" THEN downgrade_payload(payload.v, keep_rules)
                             ELSE Step(EmptyMap, <<>>)
                     with_payload == IF payload.t = "obj"
                                     THEN Insert(versioned, "payload", Obj(step.payload))
                                     ELSE versioned
                     meta == MapGet(with_payload, "meta")
                     meta_step == IF meta.t = "obj" THEN downgrade_meta(meta.v, step.warnings)
                                  ELSE Step(EmptyMap, step.warnings)
                     with_meta == IF meta.t = "obj"
                                  THEN Insert(with_payload, "meta", Obj(meta_step.payload))
                                  ELSE with_payload
                 IN Downgraded(Obj(with_meta), meta_step.warnings)

\* the document is returned as it came
already_at_target_as_is(value) == Ok(value)

\* line 83: `Ok(normalize_uec(card))`
already_at_target(value) == Ok(normalize_uec(value))

\* `.map(|result| result.card)`
map_card(result) == IF result.ok THEN Ok(result.card) ELSE result

upgrade_uec(value, target_version) ==
    LET version == schema_version(value)
    IN IF version = None THEN Err("card must be an object with a schema")
       ELSE IF target_version = SCHEMA_VERSION_V2
       THEN (IF version.v = SCHEMA_VERSION_V2 THEN already_at_target(value)
             ELSE IF version.v = SCHEMA_VERSION THEN convert_uec_v1_to_v2(value)
             ELSE Err("unsupported source version: " \o version.v))
       ELSE IF target_version = SCHEMA_VERSION
       THEN map_card(downgrade_uec(value, SCHEMA_VERSION, FALSE))
       ELSE Err("unsupported target version: " \o target_version)

\* walk_diff's array arm compares up to the left array's length only
array_span_left(left, right) == Len(left)

\* `left.len().max(right.len())`
array_span(left, right) == IF Len(left) >= Len(right) THEN Len(left) ELSE Len(right)

\* `items.get(index).unwrap_or(&Value::Null)`, index counted from 0
ItemOrNull(items, index) == IF index + 1 <= Len(items) THEN items[index + 1] ELSE Null

\* the path of an object member
member_path(path, key) == IF path = "" THEN key ELSE path \o "." \o key

\* the path of an array element
index_path(path, index) == path \o "[" \o ToString(index) \o "]"

\* UecDiffEntry
DiffEntry(path, change_type, before, after) ==
    [path |-> path, change_type |-> change_type, before |-> before, after |-> after]

\* every unequal pair is one changed entry, containers included
walk_diff_whole(a, b, path) ==
    IF a = b THEN <<>>
    ELSE <<DiffEntry(IF path = "" THEN "root" ELSE path, "changed", a, b)>>

RECURSIVE walk_diff(_, _, _)
walk_diff(a, b, path) ==
    IF a = b THEN <<>>
    ELSE IF a.t = "arr" /\ b.t = "arr"
    THEN Flatten([i \in 1..array_span(a.v, b.v) |->
            walk_diff(ItemOrNull(a.v, i - 1), ItemOrNull(b.v, i - 1), index_path(path, i - 1))])
    ELSE IF a.t = "obj" /\ b.t = "obj"
    THEN LET keys == Sorted(DOMAIN a.v \cup DOMAIN b.v)
         IN Flatten([i \in 1..Len(keys) |->
                LET key == keys[i]
                    next_path == member_path(path, key)
                    before == MapGet(a.v, key)
                    after == MapGet(b.v, key)
                IN IF before = None THEN <<DiffEntry(next_path, "added", None, after)>>
                   ELSE IF after = None THEN <<DiffEntry(next_path, "removed", before, None)>>
                   ELSE walk_diff(before, after, next_path)])
    ELSE <<DiffEntry(IF path = "" THEN "root" ELSE path, "changed", a, b)>>

\* only the left side is normalized
diff_uec_left_normalized(left, right) == walk_diff(normalize_uec(left), right, "")

diff_uec(left, right) == walk_diff(normalize_uec(left), normalize_uec(right), "")

\* what merge_values returns and what it adds to the conflicts set
Merged(value, conflicts) == [value |-> value, conflicts |-> conflicts]

\* the two arrays are treated as any other pair of values
merge_arrays_by_conflict(left, right, path, options) ==
    IF IsStr(options.array, "concat") THEN Merged(Arr(left \o right), {})
    ELSE Merged(IF IsStr(options.conflict, "base") THEN Arr(left) ELSE Arr(right),
                IF left # right THEN {path} ELSE {})

\* merge_values' arm for two arrays (lines 288-299)
merge_arrays(left, right, path, options) ==
    IF IsStr(options.array, "concat") THEN Merged(Arr(left \o right), {})
    ELSE Merged(Arr(right), IF left # right THEN {path} ELSE {})

\* every pair is recorded as a conflict
merge_other_always_conflict(base, incoming, path, options) ==
    Merged(IF IsStr(options.conflict, "base") THEN base ELSE incoming, {path})

\* the incoming value always wins
merge_other_incoming(base, incoming, path, options) ==
    Merged(incoming, IF base # incoming THEN {path} ELSE {})

\* merge_values' last arm (lines 327-337)
merge_other(base, incoming, path, options) ==
    Merged(IF IsStr(options.conflict, "base") THEN base ELSE incoming,
           IF base # incoming THEN {path} ELSE {})

\* a null incoming value is merged like any other value
RECURSIVE merge_values_null_wins(_, _, _, _)
merge_values_null_wins(base, incoming, path, options) ==
    IF base.t = "arr" /\ incoming.t = "arr" THEN merge_arrays(base.v, incoming.v, path, options)
    ELSE IF base.t = "obj" /\ incoming.t = "obj"
    THEN LET left == base.v
             right == incoming.v
             keys == DOMAIN left \cup DOMAIN right
             sub == [key \in keys |->
                        IF ContainsKey(right, key)
                        THEN merge_values_null_wins(IF ContainsKey(left, key) THEN left[key] ELSE Null,
                                                    right[key], member_path(path, key), options)
                        ELSE Merged(left[key], {})]
         IN Merged(Obj([key \in keys |-> sub[key].value]), UNION {sub[key].conflicts : key \in keys})
    ELSE merge_other(base, incoming, path, options)

RECURSIVE merge_values(_, _, _, _)
merge_values(base, incoming, path, options) ==
    IF incoming.t = "null" THEN Merged(base, {})
    ELSE IF base.t = "arr" /\ incoming.t = "arr" THEN merge_arrays(base.v, incoming.v, path, options)
    ELSE IF base.t = "obj" /\ incoming.t = "obj"
    THEN LET left == base.v
             right == incoming.v
             keys == DOMAIN left \cup DOMAIN right
             sub == [key \in keys |->
                        IF ContainsKey(right, key)
                        THEN merge_values(IF ContainsKey(left, key) THEN left[key] ELSE Null,
                                          right[key], member_path(path, key), options)
                        ELSE Merged(left[key], {})]
         IN Merged(Obj([key \in keys |-> sub[key].value]), UNION {sub[key].conflicts : key \in keys})
    ELSE merge_other(base, incoming, path, options)

\* the root path is reported like any other
merge_uec_with_root(base, incoming, options) ==
    LET merged == merge_values(base, incoming, "", options)
    IN [value |-> merged.value, conflicts |-> Sorted(merged.conflicts)]

\* MergeResult: the conflicts in BTreeSet order, the empty path left out
merge_uec(base, incoming, options) ==
    LET merged == merge_values(base, incoming, "", options)
    IN [value |-> merged.value, conflicts |-> Sorted(merged.conflicts \ {""})]

\* AssetReference
AssetReference(path, kind, value) == [path |-> path, kind |-> kind, value |-> value]

\* a locator is reported and then walked like any other object
RECURSIVE extract_assets_walk_deep(_, _)
extract_assets_walk_deep(value, path) ==
    IF is_likely_asset_string(value) THEN <<AssetReference(path, "string", value)>>
    ELSE IF value.t = "arr"
    THEN Flatten([i \in 1..Len(value.v) |-> extract_assets_walk_deep(value.v[i], index_path(path, i - 1))])
    ELSE IF value.t = "obj"
    THEN LET keys == Sorted(DOMAIN value.v)
         IN (IF is_asset_locator_object(value) THEN <<AssetReference(path, "locator", value)>> ELSE <<>>)
            \o Flatten([i \in 1..Len(keys) |->
                    extract_assets_walk_deep(value.v[keys[i]], member_path(path, keys[i]))])
    ELSE <<>>

RECURSIVE extract_assets_walk(_, _)
extract_assets_walk(value, path) ==
    IF is_likely_asset_string(value) THEN <<AssetReference(path, "string", value)>>
    ELSE IF is_object(value) /\ is_asset_locator_object(value)
    THEN <<AssetReference(path, "locator", value)>>
    ELSE IF value.t = "arr"
    THEN Flatten([i \in 1..Len(value.v) |-> extract_assets_walk(value.v[i], index_path(path, i - 1))])
    ELSE IF value.t = "obj"
    THEN LET keys == Sorted(DOMAIN value.v)
         IN Flatten([i \in 1..Len(keys) |->
                extract_assets_walk(value.v[keys[i]], member_path(path, keys[i]))])
    ELSE <<>>

extract_assets(value) == extract_assets_walk(value, "")

\* the mappers a caller passes to rewrite_assets
Mappers == {"identity", "by_kind", "null"}

\* the mapper is handed the path in place of the value
call_mapper_with_path(mapper, reference) ==
    IF mapper = "identity" THEN Str(reference.path)
    ELSE IF mapper = "by_kind" THEN Str(reference.kind \o ":" \o reference.path)
    ELSE Null

\* `mapper(AssetReference { .. })`
call_mapper(mapper, reference) ==
    IF mapper = "identity" THEN reference.value
    ELSE IF mapper = "by_kind" THEN Str(reference.kind \o ":" \o reference.path)
    ELSE Null

\* arrays are returned as they are
RECURSIVE rewrite_walk_objects(_, _, _)
rewrite_walk_objects(value, path, mapper) ==
    IF is_likely_asset_string(value) THEN call_mapper(mapper, AssetReference(path, "string", value))
    ELSE IF is_object(value) /\ is_asset_locator_object(value)
    THEN call_mapper(mapper, AssetReference(path, "locator", value))
    ELSE IF value.t = "obj"
    THEN Obj([key \in DOMAIN value.v |-> rewrite_walk_objects(value.v[key], member_path(path, key), mapper)])
    ELSE value

\* the references the inner fn walk of rewrite_assets hands to the mapper, in call order
RECURSIVE rewrite_calls(_, _)
rewrite_calls(value, path) ==
    IF is_likely_asset_string(value) THEN <<AssetReference(path, "string", value)>>
    ELSE IF is_object(value) /\ is_asset_locator_object(value)
    THEN <<AssetReference(path, "locator", value)>>
    ELSE IF value.t = "arr"
    THEN Flatten([i \in 1..Len(value.v) |-> rewrite_calls(value.v[i], index_path(path, i - 1))])
    ELSE IF value.t = "obj"
    THEN LET keys == Sorted(DOMAIN value.v)
         IN Flatten([i \in 1..Len(keys) |-> rewrite_calls(value.v[keys[i]], member_path(path, keys[i]))])
    ELSE <<>>

\* the inner fn walk of rewrite_assets
RECURSIVE rewrite_walk(_, _, _)
rewrite_walk(value, path, mapper) ==
    IF is_likely_asset_string(value) THEN call_mapper(mapper, AssetReference(path, "string", value))
    ELSE IF is_object(value) /\ is_asset_locator_object(value)
    THEN call_mapper(mapper, AssetReference(path, "locator", value))
    ELSE IF value.t = "arr"
    THEN Arr([i \in 1..Len(value.v) |-> rewrite_walk(value.v[i], index_path(path, i - 1), mapper)])
    ELSE IF value.t = "obj"
    THEN Obj([key \in DOMAIN value.v |-> rewrite_walk(value.v[key], member_path(path, key), mapper)])
    ELSE value

rewrite_assets(value, mapper) == rewrite_walk(value, "", mapper)

\* `and_then(Value::as_i64)` of two members, zipped, compared
created_after_updated(map) ==
    LET created == MapGet(map, "createdAt")
        updated == MapGet(map, "updatedAt")
    IN created.t = "num" /\ updated.t = "num" /\ created.v > updated.v

\* `description.trim().is_empty()`
is_blank(content) == \A i \in 1..Len(content) : SubSeq(content, i, i) = " "

\* the ids of the variants that are objects with a string id (lines 498-507)
known_ids(variants) ==
    {Get(variants[i], "id").v : i \in {j \in 1..Len(variants) : Get(variants[j], "id").t = "str"}}

\* lines 490-514
selected_variant_warnings(value, payload) ==
    LET scene == MapGet(payload, "scene")
        selected_variant == Get(scene, "selectedVariant")
        variants == Get(scene, "variants")
    IN IF /\ IsStr(schema_version(value), SCHEMA_VERSION_V2)
          /\ scene.t = "obj"
          /\ selected_variant.t = "str"
          /\ variants.t = "arr"
          /\ selected_variant.v \notin known_ids(variants.v)
       THEN <<"payload.scene.selectedVariant does not match any variant id">>
       ELSE <<>>

INLINE_LIMIT == 200000

\* lines 516-527
large_asset_warnings(assets) ==
    Flatten([i \in 1..Len(assets) |->
        IF /\ assets[i].kind = "locator"
           /\ IsStr(Get(assets[i].value, "type"), "inline_base64")
           /\ Get(assets[i].value, "data").t = "str"
           /\ Len(Get(assets[i].value, "data").v) > INLINE_LIMIT
        THEN <<assets[i].path \o ": inline_base64 asset is very large">>
        ELSE <<>>])

\* LintResult
lint_uec(value) ==
    LET payload == Get(value, "payload")
    IN IF payload.t # "obj"
       THEN [ok |-> FALSE, warnings |-> <<"root: not a valid UEC object shape">>]
       ELSE LET description == MapGet(payload.v, "description")
                meta == Get(value, "meta")
                warnings ==
                    (IF description.t = "str" /\ is_blank(description.v)
                     THEN <<"payload.description is an empty string">> ELSE <<>>)
                    \o (IF created_after_updated(payload.v)
                        THEN <<"payload.createdAt is greater than payload.updatedAt">> ELSE <<>>)
                    \o (IF meta.t = "obj" /\ created_after_updated(meta.v)
                        THEN <<"meta.createdAt is greater than meta.updatedAt">> ELSE <<>>)
                    \o selected_variant_warnings(value, payload.v)
                    \o large_asset_warnings(extract_assets(value))
            IN [ok |-> warnings = <<>>, warnings |-> warnings]

(***************************************************************************)
(* Inputs                                                                  *)
(***************************************************************************)
\* an object of the fields that are not None
MkObj(fields) == Obj([k \in {x \in DOMAIN fields : fields[x] # None} |-> fields[k]])

NoOpts == [strict |-> FALSE]

SchemaOpts ==
    {None, Str("UEC")}
    \cup {MkObj([name |-> Str("UEC"), version |-> v]) : v \in {Str("1.0"), Str("2.0"), Str("9.9"), Str("2.1"), Num(1)}}
    \cup {MkObj([name |-> Str("CARD"), version |-> Str("2.0"), compat |-> Num(1)])}

KindOpts == {None, Str("character"), Str("persona"), Str("npc")}

SettingsOpts == {None, Null, Obj(EmptyMap), Str("nope")}

ExtensionsOpts == {None, Null, MkObj([x |-> Num(1)]), Num(1)}

MetaOpts ==
    {None, Null, Obj(EmptyMap), Arr(<<>>),
     MkObj([createdAt |-> Num(1), updatedAt |-> Num(2), source |-> Str("app"),
            originalCreatedAt |-> Num(1), originalUpdatedAt |-> Num(2)]),
     MkObj([createdAt |-> Str("x"), authors |-> Arr(<<Num(1)>>), originalCreatedAt |-> Str("y")])}

Scene1 == MkObj([id |-> Str("s1"), content |-> Str("hello"), selectedVariantId |-> Null])

ValidatePayloadOpts ==
    {None, Str("payload"), Obj(EmptyMap),
     MkObj([id |-> Str("c1"), name |-> Str("C")]),
     MkObj([id |-> Str("p1"), title |-> Str("P"), description |-> Str("d"),
            createdAt |-> Num(1), updatedAt |-> Num(2)]),
     MkObj([id |-> Str("c1"), name |-> Str("C"), description |-> Str("d"), rules |-> Arr(<<Str("r1")>>),
            scenes |-> Arr(<<Scene1>>), defaultSceneId |-> Str("s1"),
            createdAt |-> Num(1), updatedAt |-> Num(2)]),
     MkObj([id |-> Str("c1"), name |-> Str("C"), description |-> Str("d"),
            scene |-> MkObj([id |-> Str("s1"), content |-> Str("hello"), selectedVariant |-> Num(0)]),
            avatar |-> MkObj([type |-> Str("remote_url"), url |-> Str("https://h/a.png")]),
            createdAt |-> Num(1), updatedAt |-> Num(2)]),
     MkObj([id |-> Str("c1"), name |-> Str("C"), rules |-> Arr(<<Str("r1")>>),
            scenes |-> Arr(<<MkObj([id |-> Num(1), variants |-> Arr(<<MkObj([id |-> Str("v1")])>>)])>>),
            scene |-> MkObj([content |-> Num(2), selectedVariant |-> Num(5)])]),
     MkObj([id |-> Num(1), name |-> Null, tags |-> Arr(<<Num(1)>>), scenes |-> Str("x"), scene |-> Num(3),
            avatar |-> Num(5), voiceConfig |-> Obj(EmptyMap), isDefault |-> Str("yes"),
            characterBook |-> MkObj([entries |-> Arr(<<Num(1)>>)])])}

ValidateDocs ==
    {MkObj(f) : f \in [schema : SchemaOpts, kind : KindOpts, payload : ValidatePayloadOpts,
                       app_specific_settings : SettingsOpts, meta : MetaOpts,
                       extensions : ExtensionsOpts]}
    \cup {Null, Arr(<<>>), Str("card")}

(***************************************************************************)
(* validate, normalize, validate again                                     *)
(***************************************************************************)
InitValidate ==
    /\ pc = "start"
    /\ card \in ValidateDocs
    /\ other = Null
    /\ opts \in [strict : BOOLEAN]
    /\ out = EmptyMap

Validate ==
    /\ pc = "start"
    /\ out' = Insert(out, "validate", validate_uec(card, opts.strict))
    /\ pc' = "validated"
    /\ UNCHANGED <<card, other, opts>>

Normalize ==
    /\ pc = "validated"
    /\ out' = Insert(out, "normalize", normalize_uec(card))
    /\ pc' = "normalized"
    /\ UNCHANGED <<card, other, opts>>

ValidateNormalized ==
    /\ pc = "normalized"
    /\ out' = Insert(out, "revalidate", validate_uec(out["normalize"], opts.strict))
    /\ pc' = "done"
    /\ UNCHANGED <<card, other, opts>>

NextValidate == Validate \/ Normalize \/ ValidateNormalized

SpecValidate == InitValidate /\ [][NextValidate]_vars


(***************************************************************************)
(* Claims C1, C4, C5 (SpecValidate)                                        *)
(***************************************************************************)
Has(errors, e) == \E i \in 1..Len(errors) : errors[i] = e

\* an error whose path is the field or lies below it
ErrorAbout(errors, field) ==
    \E i \in 1..Len(errors) : StartsWith(errors[i], field \o ":") \/ StartsWith(errors[i], field \o ".")

TopFields == {"app_specific_settings", "meta", "extensions"}

MustBeObject(field) == push_error(field, "must be an object")

NotTopLevelShape(e) == \A f \in TopFields : e # MustBeObject(f)

CardVersion == Get(Get(card, "schema"), "version")

\* C1 as stated: validate(normalize(D), strict) returns the same ok flag and the
\* same error list as validate(D, strict), for every document D.
C1_Original == pc = "done" => out["revalidate"] = out["validate"]

\* C1 amended: validate(normalize(D), strict) returns the errors of validate(D, strict),
\* in order, without the "must be an object" errors of app_specific_settings, meta and
\* extensions, and ok set accordingly; the two results are the same when each of the
\* three fields of D is absent or an object, and when D is no object.
C1_NormalizeKeepsValidity ==
    pc = "done" =>
        /\ out["revalidate"].errors = SelectSeq(out["validate"].errors, NotTopLevelShape)
        /\ out["revalidate"].ok = (out["revalidate"].errors = <<>>)
        /\ (\A f \in TopFields : Get(card, f).t \in {"none", "obj"}) => out["revalidate"] = out["validate"]

C1_Witness ==
    /\ pc = "done"
    /\ Get(card, "meta").t \notin {"none", "obj"}
    /\ ~out["validate"].ok
    /\ out["revalidate"].ok

\* C4 as stated: for each of app_specific_settings, meta and extensions, validate
\* reports no error about the field when it is absent or null, and reports an error
\* when it is present with a non-null non-object value.
C4_Original ==
    (pc = "validated" /\ card.t = "obj") =>
        \A f \in TopFields :
            /\ Get(card, f).t \in {"none", "null"} => ~ErrorAbout(out["validate"].errors, f)
            /\ Get(card, f).t \notin {"none", "null", "obj"} => ErrorAbout(out["validate"].errors, f)

\* C4 amended: for each of the three fields, validate reports "<field>: must be an
\* object" exactly when the field is present with a non-object value, null included;
\* when the field is absent it reports no error about it, except the two required
\* provenance errors under meta of a strict v2 validation.
C4_TopLevelObjects ==
    (pc = "validated" /\ card.t = "obj") =>
        \A f \in TopFields :
            /\ Has(out["validate"].errors, MustBeObject(f)) <=> Get(card, f).t \notin {"none", "obj"}
            /\ Get(card, f).t = "none" =>
                   (ErrorAbout(out["validate"].errors, f)
                        <=> (f = "meta" /\ opts.strict /\ IsStr(CardVersion, SCHEMA_VERSION_V2)))

C4_Witness ==
    /\ pc = "validated"
    /\ Get(card, "extensions") = Null
    /\ Get(card, "meta") = None
    /\ Get(card, "app_specific_settings").t = "str"
    /\ Has(out["validate"].errors, MustBeObject("extensions"))
    /\ Has(out["validate"].errors, MustBeObject("app_specific_settings"))

UnknownVersionErrors(errors) == {i \in 1..Len(errors) : StrContains(errors[i], "unknown version")}

\* C5: an object document whose schema.version is a string other than "1.0" and "2.0"
\* validates (strict or not) to ok = false with exactly one "unknown version" error and
\* no error whose path begins with "payload."; the app_specific_settings, meta (v1 rule)
\* and extensions checks still run.
C5_UnknownVersionIsolated ==
    (pc = "validated" /\ card.t = "obj" /\ CardVersion.t = "str" /\ ~known_version(CardVersion.v)) =>
        LET errors == out["validate"].errors
        IN /\ ~out["validate"].ok
           /\ Cardinality(UnknownVersionErrors(errors)) = 1
           /\ \A i \in 1..Len(errors) : ~StartsWith(errors[i], "payload.")
           /\ \A f \in TopFields : Get(card, f).t \notin {"none", "obj"} => Has(errors, MustBeObject(f))
           /\ Get(Get(card, "meta"), "createdAt").t = "str" => Has(errors, "meta.createdAt: must be a number")
           /\ \A i \in 1..Len(errors) : ~StartsWith(errors[i], "meta.original")

C5_Witness ==
    /\ pc = "validated"
    /\ IsStr(CardVersion, "9.9")
    /\ IsStr(Get(card, "kind"), "character")
    /\ Get(card, "payload").t = "obj"
    /\ Get(Get(card, "payload"), "name").t # "str"
    /\ Get(Get(card, "meta"), "originalCreatedAt").t = "str"
    /\ opts.strict
    /\ Len(out["validate"].errors) = 3


(***************************************************************************)
(* Generic values for diff and merge                                       *)
(***************************************************************************)
MaxLen == 2

Keys == {"a", "b"}

Leaves == {Null, Num(1), Num(2)}

ArraysOf(S) == {Arr(items) : items \in UNION {[1..n -> S] : n \in 0..MaxLen}}

ObjectsOf(S) == {Obj(map) : map \in UNION {[D -> S] : D \in SUBSET Keys}}

Flat == Leaves \cup ArraysOf(Leaves) \cup ObjectsOf(Leaves)

Containers == Flat \ Leaves

Values == Flat \cup {Arr(<<v>>) : v \in Containers} \cup {Obj([a |-> v]) : v \in Containers}

MergeOptions == [array : {None, Str("replace"), Str("concat")}, conflict : {None, Str("incoming"), Str("base")}]

(***************************************************************************)
(* merge                                                                   *)
(***************************************************************************)
InitMerge ==
    /\ pc = "start"
    /\ card \in Values
    /\ other \in Values
    /\ opts \in MergeOptions
    /\ out = EmptyMap

Merge ==
    /\ pc = "start"
    /\ out' = Insert(out, "merge", merge_uec(card, other, opts))
    /\ pc' = "done"
    /\ UNCHANGED <<card, other, opts>>

NextMerge == Merge

SpecMerge == InitMerge /\ [][NextMerge]_vars

(***************************************************************************)
(* diff, both ways                                                         *)
(***************************************************************************)
InitDiff ==
    /\ pc = "start"
    /\ card \in Values
    /\ other \in Values
    /\ opts = NoOpts
    /\ out = EmptyMap

Diff ==
    /\ pc = "start"
    /\ out' = Insert(out, "diff", diff_uec(card, other))
    /\ pc' = "forward"
    /\ UNCHANGED <<card, other, opts>>

DiffReversed ==
    /\ pc = "forward"
    /\ out' = Insert(out, "reversed", diff_uec(other, card))
    /\ pc' = "done"
    /\ UNCHANGED <<card, other, opts>>

NextDiff == Diff \/ DiffReversed

SpecDiff == InitDiff /\ [][NextDiff]_vars


(***************************************************************************)
(* Claims C2, C9 (SpecMerge)                                               *)
(***************************************************************************)
IsLeaf(value) == value.t \notin {"arr", "obj"}

Shorter(left, right) == IF Len(left) <= Len(right) THEN Len(left) ELSE Len(right)

\* the merged value m carries a's value at every leaf path, through objects and
\* arrays, where a and b both carry a leaf and the two differ
RECURSIVE BaseAtEveryLeaf(_, _, _)
BaseAtEveryLeaf(a, b, m) ==
    IF a.t = "obj" /\ b.t = "obj"
    THEN /\ m.t = "obj"
         /\ \A k \in DOMAIN a.v \cap DOMAIN b.v :
                k \in DOMAIN m.v /\ BaseAtEveryLeaf(a.v[k], b.v[k], m.v[k])
    ELSE IF a.t = "arr" /\ b.t = "arr"
    THEN /\ m.t = "arr"
         /\ \A i \in 1..Shorter(a.v, b.v) :
                i <= Len(m.v) /\ BaseAtEveryLeaf(a.v[i], b.v[i], m.v[i])
    ELSE (IsLeaf(a) /\ IsLeaf(b) /\ a # b) => m = a

\* the same through objects only; where a and b both hold an array, m is b's array
RECURSIVE BaseAtObjectLeaves(_, _, _)
BaseAtObjectLeaves(a, b, m) ==
    IF a.t = "obj" /\ b.t = "obj"
    THEN /\ m.t = "obj"
         /\ \A k \in DOMAIN a.v \cap DOMAIN b.v :
                k \in DOMAIN m.v /\ BaseAtObjectLeaves(a.v[k], b.v[k], m.v[k])
    ELSE IF a.t = "arr" /\ b.t = "arr"
    THEN m = b
    ELSE (IsLeaf(a) /\ IsLeaf(b) /\ a # b) => m = a

BaseWinsCall == pc = "done" /\ IsStr(opts.conflict, "base") /\ opts.array = None

\* C2 as stated: merge(A, B, {conflict: "base"}), array mode at its default, carries A's
\* value at every leaf path where A and B both carry a value and differ, leaves inside
\* arrays included.
C2_Original == BaseWinsCall => BaseAtEveryLeaf(card, other, out["merge"].value)

\* C2 amended: merge(A, B, {conflict: "base"}), array mode at its default, carries A's
\* value at every leaf path outside arrays where A and B both carry a value and differ;
\* where A and B both hold an array at a path, the merged value holds B's array whole.
C2_BaseWinsOutsideArrays == BaseWinsCall => BaseAtObjectLeaves(card, other, out["merge"].value)

C2_Witness ==
    /\ BaseWinsCall
    /\ card = Obj([a |-> Obj([b |-> Num(1)])])
    /\ other = Obj([a |-> Obj([b |-> Num(2)])])
    /\ out["merge"].value = card
    /\ out["merge"].conflicts = <<"a.b">>

\* C9: merge(A, A, options).conflicts is empty for every value A and every combination
\* of the array and conflict options, set or unset.
C9_SelfMergeNoConflict == (pc = "done" /\ other = card) => out["merge"].conflicts = <<>>

C9_Witness ==
    /\ pc = "done"
    /\ other = card
    /\ card = Obj([a |-> Arr(<<Num(1), Num(2)>>)])
    /\ IsStr(opts.array, "replace")
    /\ out["merge"].value = card

(***************************************************************************)
(* Claims C7, C8 (SpecDiff)                                                *)
(***************************************************************************)
\* the entry as the reversed diff reports it
Swapped(e) ==
    DiffEntry(e.path,
              CASE e.change_type = "added" -> "removed"
                [] e.change_type = "removed" -> "added"
                [] OTHER -> e.change_type,
              e.after, e.before)

Paths(entries) == {entries[i].path : i \in 1..Len(entries)}

\* C7: diff(A, B) and diff(B, A) report the same paths; an entry added in one is removed
\* in the other at the same path with the same value, and a changed entry appears in
\* both with before and after swapped.
C7_DiffSymmetric ==
    pc = "done" =>
        /\ Paths(out["diff"]) = Paths(out["reversed"])
        /\ Len(out["diff"]) = Len(out["reversed"])
        /\ SeqToSet(out["reversed"]) = {Swapped(e) : e \in SeqToSet(out["diff"])}

C7_Witness ==
    /\ pc = "done"
    /\ \E i, j \in 1..Len(out["diff"]) :
          /\ out["diff"][i].change_type = "added"
          /\ out["diff"][j].change_type = "changed"
          /\ out["reversed"][i].change_type = "removed"
          /\ out["reversed"][j].before = out["diff"][j].after

\* C8: diff(D, D) is the empty list, for every value D.
C8_DiffReflexive == (pc # "start" /\ other = card) => out["diff"] = <<>>

C8_Witness ==
    /\ pc = "forward"
    /\ other = card
    /\ card = Obj([a |-> Obj([a |-> Null, b |-> Num(1)])])
    /\ out["diff"] = <<>>


(***************************************************************************)
(* downgrade                                                               *)
(***************************************************************************)
V2Scenes ==
    {None, Null, Num(3),
     MkObj([id |-> Str("s1"), content |-> Str("hello"), selectedVariant |-> Num(0)]),
     MkObj([id |-> Str("s2"), content |-> Str("hello"), selectedVariant |-> Str("v1")]),
     MkObj([content |-> Str("hello")])}

DowngradePayloadOpts ==
    {MkObj(f) : f \in [id : {Str("c1")}, name : {Str("C")},
                       rules : {None, Arr(<<>>), Arr(<<Str("r1")>>)},
                       scene : V2Scenes,
                       promptTemplateId : {None, Str("t1"), Num(7)},
                       systemPrompt : {None, Null, Str("sp")},
                       nickname : {None, Str("Nick")},
                       characterBook : {None, MkObj([entries |-> Arr(<<>>)])}]}
    \cup {Str("payload")}

DowngradeMetaOpts ==
    {None, Obj(EmptyMap),
     MkObj([createdAt |-> Num(1), originalCreatedAt |-> Num(1), originalSource |-> Str("app")])}

DowngradeDocs ==
    {MkObj(f) : f \in [schema : {MkObj([name |-> Str("UEC"), version |-> Str(v)]) : v \in {"1.0", "2.0", "9.9"}}
                                    \cup {None},
                       kind : {Str("character")},
                       payload : DowngradePayloadOpts,
                       meta : DowngradeMetaOpts]}

InitDowngrade ==
    /\ pc = "start"
    /\ card \in DowngradeDocs
    /\ other = Null
    /\ opts \in [target_version : {"1.0", "2.0"}, keep_rules : BOOLEAN]
    /\ out = EmptyMap

Downgrade ==
    /\ pc = "start"
    /\ out' = Insert(out, "downgrade", downgrade_uec(card, opts.target_version, opts.keep_rules))
    /\ pc' = "done"
    /\ UNCHANGED <<card, other, opts>>

NextDowngrade == Downgrade

SpecDowngrade == InitDowngrade /\ [][NextDowngrade]_vars

(***************************************************************************)
(* Claim C3                                                                *)
(***************************************************************************)
\* a v2 document with an object payload was downgraded to v1
DowngradedV2 ==
    /\ pc = "done"
    /\ opts.target_version = SCHEMA_VERSION
    /\ IsStr(schema_version(card), SCHEMA_VERSION_V2)
    /\ Get(card, "payload").t = "obj"

RulesAfter == Get(Get(out["downgrade"].card, "payload"), "rules")

RulesBefore == Get(Get(card, "payload"), "rules")

\* C3: after the downgrade of a v2 document with an object payload, payload.rules is
\* the empty array, except when keep_rules is set and the input payload has a rules
\* field: then the existing rules value is kept.
C3_Original ==
    DowngradedV2 =>
        /\ out["downgrade"].ok
        /\ RulesAfter = IF opts.keep_rules /\ RulesBefore # None THEN RulesBefore ELSE Arr(<<>>)

\* C3, as the code has it: the empty array is inserted only when keep_rules is unset
\* and the payload has no rules field; in every other case rules is left as it was.
C3_RulesAsCoded ==
    DowngradedV2 =>
        /\ out["downgrade"].ok
        /\ RulesAfter = IF ~opts.keep_rules /\ RulesBefore = None THEN Arr(<<>>) ELSE RulesBefore

\* keep_rules unset, and the rules of the input survive the downgrade
C3_Witness ==
    /\ DowngradedV2
    /\ ~opts.keep_rules
    /\ RulesBefore = Arr(<<Str("r1")>>)
    /\ RulesAfter = RulesBefore


(***************************************************************************)
(* validate, convert to v2, downgrade to v1                                *)
(***************************************************************************)
MaxScenes == 2

V1Scenes ==
    {Scene1,
     MkObj([id |-> Str("s2"), content |-> Str("again"), selectedVariantId |-> Str("v1"),
            variants |-> Arr(<<MkObj([id |-> Str("v1"), content |-> Str("alt"), createdAt |-> Num(1)])>>)]),
     MkObj([id |-> Str("s1"), content |-> Str("twin")]),
     MkObj([content |-> Str("anonymous")]),
     Num(3)}

V1SceneLists == {None} \cup {Arr(items) : items \in UNION {[1..n -> V1Scenes] : n \in 0..MaxScenes}}

V1PayloadOpts ==
    {MkObj(f) : f \in [id : {Str("c1")}, name : {Str("C")}, title : {Str("P")},
                       description : {Str("d")},
                       scenes : V1SceneLists,
                       defaultSceneId : {None, Null, Str("s1"), Str("s2")},
                       systemPrompt : {None, Str("_ID:t1"), Str("see _ID:t1")},
                       rules : {None, Arr(<<Str("r1")>>)}]}
    \cup {Obj(EmptyMap)}

V1MetaOpts ==
    {None,
     MkObj([createdAt |-> Num(1), source |-> Str("app")]),
     MkObj([createdAt |-> Num(1), updatedAt |-> Num(2), source |-> Str("app"),
            originalCreatedAt |-> Num(5), license |-> Str("MIT")]),
     MkObj([updatedAt |-> Num(2), originalSource |-> Num(7)])}

V1Docs ==
    {MkObj(f) : f \in [schema : {MkObj([name |-> Str("UEC"), version |-> Str(v)]) : v \in {"1.0", "2.0"}},
                       kind : {Str("character"), Str("persona")},
                       payload : V1PayloadOpts,
                       meta : V1MetaOpts]}
    \cup {Null}

InitRoundTrip ==
    /\ pc = "start"
    /\ card \in V1Docs
    /\ other = Null
    /\ opts \in [keep_rules : BOOLEAN]
    /\ out = EmptyMap

ValidateV1 ==
    /\ pc = "start"
    /\ out' = Insert(out, "validate", validate_uec(card, FALSE))
    /\ pc' = "validated"
    /\ UNCHANGED <<card, other, opts>>

Convert ==
    /\ pc = "validated"
    /\ out' = Insert(out, "convert", convert_uec_v1_to_v2(card))
    /\ pc' = "converted"
    /\ UNCHANGED <<card, other, opts>>

\* the caller passes the converted document on: `convert_uec_v1_to_v2(..)?`
DowngradeConverted ==
    /\ pc = "converted"
    /\ out["convert"].ok
    /\ out' = Insert(out, "downgrade", downgrade_uec(out["convert"].value, SCHEMA_VERSION, opts.keep_rules))
    /\ pc' = "done"
    /\ UNCHANGED <<card, other, opts>>

NextRoundTrip == ValidateV1 \/ Convert \/ DowngradeConverted

SpecRoundTrip == InitRoundTrip /\ [][NextRoundTrip]_vars

(***************************************************************************)
(* Claim C6                                                                *)
(***************************************************************************)
\* the document passes non-strict validation as a v1 document
ValidV1 == out["validate"].ok /\ IsStr(schema_version(card), SCHEMA_VERSION)

ScenesBefore == Get(Get(card, "payload"), "scenes")

ScenesAfter == Get(Get(out["downgrade"].card, "payload"), "scenes")

\* payload.scenes of the document holds exactly one scene
OneScene == ScenesBefore.t = "arr" /\ Len(ScenesBefore.v) = 1 /\ ScenesBefore.v[1].t = "obj"

\* C6: for a document that passes non-strict v1 validation the conversion to v2
\* succeeds, the downgrade of its result succeeds with schema.version "1.0", and when
\* payload.scenes held exactly one scene the downgraded payload.scenes is a
\* one-element array whose scene has the id of the original scene.
C6_RoundTrip ==
    /\ (pc \in {"converted", "done"} /\ ValidV1) => out["convert"].ok
    /\ (pc = "done" /\ ValidV1) =>
        /\ out["downgrade"].ok
        /\ IsStr(schema_version(out["downgrade"].card), SCHEMA_VERSION)
        /\ OneScene =>
            /\ ScenesAfter.t = "arr"
            /\ Len(ScenesAfter.v) = 1
            /\ Get(ScenesAfter.v[1], "id") = Get(ScenesBefore.v[1], "id")

\* a valid v1 character with one scene went through both conversions
C6_Witness ==
    /\ pc = "done"
    /\ ValidV1
    /\ IsStr(Get(card, "kind"), "character")
    /\ OneScene
    /\ Get(ScenesBefore.v[1], "id") = Str("s2")
    /\ IsStr(schema_version(out["convert"].value), SCHEMA_VERSION_V2)
    /\ Get(ScenesAfter.v[1], "id") = Str("s2")


(***************************************************************************)
(* extract assets, rewrite assets                                          *)
(***************************************************************************)
RemoteUrl == "https://h/a.png"

AssetItems ==
    {Num(1), Str("plain"), Str(RemoteUrl), Str("data:x"),
     MkObj([type |-> Str("remote_url"), url |-> Str(RemoteUrl)]),
     MkObj([type |-> Str("gallery"), url |-> Str(RemoteUrl)])}

AssetArrays == {Arr(items) : items \in UNION {[1..n -> AssetItems] : n \in 0..MaxLen}}

AssetDocs ==
    {MkObj([type |-> f.type, payload |-> MkObj([avatar |-> f.avatar, note |-> f.note])]) :
        f \in [type : {None, Str("asset_ref"), Str("card")},
               avatar : {None} \cup AssetItems \cup AssetArrays,
               note : {None, Str("http://h/n")}]}
    \cup AssetItems \cup AssetArrays

InitAssets ==
    /\ pc = "start"
    /\ card \in AssetDocs
    /\ other = Null
    /\ opts \in [mapper : Mappers]
    /\ out = EmptyMap

ExtractAssets ==
    /\ pc = "start"
    /\ out' = Insert(out, "extract", extract_assets(card))
    /\ pc' = "extracted"
    /\ UNCHANGED <<card, other, opts>>

RewriteAssets ==
    /\ pc = "extracted"
    /\ out' = Insert(Insert(out, "rewrite", rewrite_assets(card, opts.mapper)),
                     "calls", rewrite_calls(card, ""))
    /\ pc' = "done"
    /\ UNCHANGED <<card, other, opts>>

NextAssets == ExtractAssets \/ RewriteAssets

SpecAssets == InitAssets /\ [][NextAssets]_vars

(***************************************************************************)
(* Claim C10                                                               *)
(***************************************************************************)
\* C10: rewrite_assets with the identity mapper, which returns the value of each
\* reference unchanged, returns a document deep-equal to its input.
C10_IdentityRewrite ==
    (pc = "done" /\ opts.mapper = "identity") => out["rewrite"] = card

\* the identity mapper was called on a string asset and on a locator of the document
C10_Witness ==
    /\ pc = "done"
    /\ opts.mapper = "identity"
    /\ \E i, j \in 1..Len(out["extract"]) :
        /\ out["extract"][i].kind = "string"
        /\ out["extract"][j].kind = "locator"
    /\ out["rewrite"] = card


(***************************************************************************)
(* lint                                                                    *)
(***************************************************************************)
Variant(id) == MkObj([id |-> Str(id), content |-> Str("alt"), createdAt |-> Num(1)])

LintScenes ==
    {None, Str("scene")}
    \cup {MkObj([id |-> Str("s1"), content |-> Str("c"), selectedVariant |-> f.selected, variants |-> f.variants]) :
            f \in [selected : {None, Num(0), Str("v1"), Str("missing")},
                   variants : {None, Str("none"), Arr(<<>>), Arr(<<Variant("v1")>>), Arr(<<Variant("v2")>>),
                               Arr(<<Num(3), Variant("v2"), Variant("v1")>>)}]}

LintDocs ==
    {MkObj([schema |-> MkObj([name |-> Str("UEC"), version |-> Str(f.version)]),
            kind |-> Str("character"),
            payload |-> MkObj([id |-> Str("c1"), name |-> Str("C"), description |-> f.description,
                               createdAt |-> f.times[1], updatedAt |-> f.times[2],
                               avatar |-> f.avatar, scene |-> f.scene]),
            meta |-> f.meta]) :
        f \in [version : {"1.0", "2.0"},
               description : {None, Str(""), Str(" "), Str("d")},
               times : {<<None, None>>, <<Num(20), Num(10)>>, <<Num(1), Num(2)>>},
               avatar : {None, MkObj([type |-> Str("inline_base64"), data |-> Str("AAAA")])},
               scene : LintScenes,
               meta : {None, MkObj([createdAt |-> Num(2), updatedAt |-> Num(1)])}]}
    \cup {Null, MkObj([payload |-> Str("payload")])}

InitLint ==
    /\ pc = "start"
    /\ card \in LintDocs
    /\ other = Null
    /\ opts = NoOpts
    /\ out = EmptyMap

Lint ==
    /\ pc = "start"
    /\ out' = Insert(out, "lint", lint_uec(card))
    /\ pc' = "done"
    /\ UNCHANGED <<card, other, opts>>

NextLint == Lint

SpecLint == InitLint /\ [][NextLint]_vars

(***************************************************************************)
(* Claim C11                                                               *)
(***************************************************************************)
LintedScene == Get(Get(card, "payload"), "scene")

\* a v2 document with an object scene was linted
LintedV2Scene ==
    /\ pc = "done"
    /\ IsStr(schema_version(card), SCHEMA_VERSION_V2)
    /\ LintedScene.t = "obj"

\* the variant ids of the linted scene: none when variants is absent or not an array
SceneVariantIds ==
    IF Get(LintedScene, "variants").t = "arr" THEN known_ids(Get(LintedScene, "variants").v) ELSE {}

\* selectedVariant is a string that is the id of no variant of the scene
Dangling ==
    /\ Get(LintedScene, "selectedVariant").t = "str"
    /\ Get(LintedScene, "selectedVariant").v \notin SceneVariantIds

NoMatchWarned == Has(out["lint"].warnings, "payload.scene.selectedVariant does not match any variant id")

\* C11: lint on a v2 document warns "selectedVariant does not match any variant id",
\* and so returns ok = false, whenever scene.selectedVariant is a string equal to the
\* id of no variant of the scene, be variants non-matching, empty or absent; it does not
\* warn when selectedVariant is 0 or the id of a variant.
C11_Original ==
    LintedV2Scene =>
        /\ Dangling => (NoMatchWarned /\ ~out["lint"].ok)
        /\ ~Dangling => ~NoMatchWarned

\* C11, as the code has it: the warning is given exactly when selectedVariant is a
\* string, variants is an array, and no variant of it has that id.
C11_WarnsOnlyWithVariantsArray ==
    LintedV2Scene =>
        (NoMatchWarned <=> (Dangling /\ Get(LintedScene, "variants").t = "arr"))

\* a scene whose selectedVariant names no variant, variants being absent, lints clean
C11_Witness ==
    /\ LintedV2Scene
    /\ Dangling
    /\ Get(LintedScene, "variants") = None
    /\ out["lint"].ok


(***************************************************************************)
(* Claim C12 (SpecDowngrade)                                               *)
(***************************************************************************)
\* a v2 document was downgraded to v1
DowngradeDone ==
    /\ pc = "done"
    /\ opts.target_version = SCHEMA_VERSION
    /\ IsStr(schema_version(card), SCHEMA_VERSION_V2)
    /\ out["downgrade"].ok

Count(strings, s) == Cardinality({i \in 1..Len(strings) : strings[i] = s})

PayloadWarning(field) == "payload." \o field \o " is not supported in v1 and was removed"

MetaWarning(field) == "meta." \o field \o " was removed for v1 compatibility"

MetaOnlyV2 == {"originalCreatedAt", "originalUpdatedAt", "originalSource"}

\* the v2-only fields are gone and each one that was present has exactly one warning
DroppedFieldsWarned ==
    LET before == Get(card, "payload")
        after == Get(out["downgrade"].card, "payload")
        meta_before == Get(card, "meta")
        meta_after == Get(out["downgrade"].card, "meta")
        warnings == out["downgrade"].warnings
    IN /\ \A field \in SeqToSet(removed_fields) :
            /\ Get(after, field) = None
            /\ Count(warnings, PayloadWarning(field)) = IF Get(before, field) # None THEN 1 ELSE 0
       /\ \A field \in MetaOnlyV2 :
            /\ Get(meta_after, field) = None
            /\ Count(warnings, MetaWarning(field)) = IF Get(meta_before, field) # None THEN 1 ELSE 0

\* the keys of the input payload that the result lacks and no warning names; a scene
\* object carried over into scenes is not counted
SilentlyRemoved ==
    LET before == Get(card, "payload")
        after == Get(out["downgrade"].card, "payload")
    IN IF before.t # "obj" THEN {}
       ELSE {key \in DOMAIN before.v :
                /\ Get(after, key) = None
                /\ ~\E i \in 1..Len(out["downgrade"].warnings) :
                        StartsWith(out["downgrade"].warnings[i], "payload." \o key \o " ")
                /\ ~(key = "scene" /\ before.v[key].t = "obj" /\ Get(after, "scenes").t = "arr")}

\* C12: after a successful downgrade of a v2 document the payload has none of the seven
\* v2-only fields and meta none of the three provenance fields, the warnings hold exactly
\* one warning for each of them that was present and none for an absent one, and no key
\* of the input is removed without a warning.
C12_Original ==
    DowngradeDone => (DroppedFieldsWarned /\ SilentlyRemoved = {})

\* C12, as the code has it: the ten fields are removed with one warning each, and the
\* only key that can vanish without a warning is a scene that is not an object.
C12_OnlySceneSilent ==
    DowngradeDone =>
        /\ DroppedFieldsWarned
        /\ SilentlyRemoved \subseteq {"scene"}
        /\ SilentlyRemoved = {"scene"} => Get(Get(card, "payload"), "scene").t # "obj"

\* fields of both lists were dropped with their warnings, and a non-object scene vanished
C12_Witness ==
    /\ DowngradeDone
    /\ Get(Get(card, "payload"), "nickname") # None
    /\ Get(Get(card, "payload"), "characterBook") # None
    /\ Get(Get(card, "meta"), "originalSource") # None
    /\ Has(out["downgrade"].warnings, PayloadWarning("nickname"))
    /\ Has(out["downgrade"].warnings, MetaWarning("originalSource"))
    /\ SilentlyRemoved = {"scene"}


(***************************************************************************)
(* Claims C13, C14 (SpecRoundTrip)                                         *)
(***************************************************************************)
Converted == pc \in {"converted", "done"}

NotObjectMessage == "card must be an object"

InvalidPrefix == "card must be a valid v1 UEC: "

VersionMessage == "card must be schema version \"1.0\" to convert"

\* C13: convert_v1_to_v2 returns an error when the input is not an object, when it
\* fails non-strict validation, or when its schema.version is not "1.0"; the three
\* cases are checked in that order and give three distinct messages, and the call
\* returns Ok exactly when none of them applies.
C13_ConvertPreconditions ==
    Converted =>
        LET result == out["convert"]
            invalid == ~out["validate"].ok
            other_version == ~IsStr(schema_version(card), SCHEMA_VERSION)
        IN /\ result.ok <=> (is_object(card) /\ ~invalid /\ ~other_version)
           /\ ~is_object(card) => result = Err(NotObjectMessage)
           /\ (is_object(card) /\ invalid) =>
                (~result.ok /\ StartsWith(result.error, InvalidPrefix) /\ result.error # VersionMessage)
           /\ (is_object(card) /\ ~invalid /\ other_version) => result = Err(VersionMessage)
           /\ ~StartsWith(NotObjectMessage, InvalidPrefix)
           /\ ~StartsWith(VersionMessage, InvalidPrefix)
           /\ NotObjectMessage # VersionMessage

\* a document that is valid as a v2 document is refused for its version
C13_Witness ==
    /\ Converted
    /\ is_object(card)
    /\ out["validate"].ok
    /\ IsStr(schema_version(card), SCHEMA_VERSION_V2)
    /\ out["convert"] = Err(VersionMessage)


ConvertedPayload == Get(out["convert"].value, "payload")

DispatchDocs ==
    {MkObj(f) : f \in [schema : {MkObj([name |-> Str("UEC"), version |-> Str(v)]) : v \in {"1.0", "2.0", "9.9"}}
                                    \cup {None, MkObj([name |-> Str("UEC"), version |-> Num(2)])},
                       kind : {Str("character")},
                       payload : {Str("payload"), Obj(EmptyMap),
                                  MkObj([id |-> Str("c1"), name |-> Str("C")]),
                                  MkObj([id |-> Str("c1"), name |-> Str("C"), rules |-> Arr(<<Str("r1")>>),
                                         scenes |-> Arr(<<Scene1>>), defaultSceneId |-> Str("s1"),
                                         systemPrompt |-> Str("_ID:t1")]),
                                  MkObj([id |-> Str("c1"), name |-> Str("C"), nickname |-> Str("Nick"),
                                         promptTemplateId |-> Str("t1"),
                                         scene |-> MkObj([id |-> Str("s1"), content |-> Str("hello"),
                                                          selectedVariant |-> Num(0)])])},
                       meta : {None, Arr(<<>>), MkObj([createdAt |-> Num(1), originalCreatedAt |-> Num(1)])}]}
    \cup {Null}

InitDispatch ==
    /\ pc = "start"
    /\ card \in DispatchDocs
    /\ other = Null
    /\ opts \in [target_version : {"1.0", "2.0", "3.0"}, keep_rules : BOOLEAN]
    /\ out = EmptyMap

Upgrade ==
    /\ pc = "start"
    /\ out' = Insert(out, "upgrade", upgrade_uec(card, opts.target_version))
    /\ pc' = "upgraded"
    /\ UNCHANGED <<card, other, opts>>

DowngradeTo ==
    /\ pc = "upgraded"
    /\ out' = Insert(out, "downgrade", downgrade_uec(card, opts.target_version, opts.keep_rules))
    /\ pc' = "done"
    /\ UNCHANGED <<card, other, opts>>

NextDispatch == Upgrade \/ DowngradeTo

SpecDispatch == InitDispatch /\ [][NextDispatch]_vars

(***************************************************************************)
(* Claim C15                                                               *)
(***************************************************************************)
Versions == {SCHEMA_VERSION, SCHEMA_VERSION_V2}

SourceVersion == schema_version(card)

\* the target or the source version is none of the two versions
Unsupported ==
    \/ opts.target_version \notin Versions
    \/ SourceVersion = None
    \/ SourceVersion.v \notin Versions

AtTarget == ~Unsupported /\ SourceVersion.v = opts.target_version

\* what upgrade returns when the versions are supported and differ
UpgradeDirected ==
    (~Unsupported /\ ~AtTarget) =>
        /\ opts.target_version = SCHEMA_VERSION_V2 => out["upgrade"] = convert_uec_v1_to_v2(card)
        /\ opts.target_version = SCHEMA_VERSION =>
            LET result == downgrade_uec(card, SCHEMA_VERSION, FALSE)
            IN /\ result.ok
               /\ out["upgrade"] = Ok(result.card)

\* C15: both dispatchers fail when the target or the source version is neither "1.0"
\* nor "2.0"; when the source is already at the target version they return the
\* normalized document, downgrade with an empty warnings list; otherwise upgrade to
\* "2.0" is convert_v1_to_v2 and upgrade to "1.0" is the card of downgrade without
\* keep_rules.
C15_Original ==
    pc = "done" =>
        /\ Unsupported => (~out["upgrade"].ok /\ ~out["downgrade"].ok)
        /\ AtTarget =>
            /\ out["upgrade"] = Ok(normalize_uec(card))
            /\ out["downgrade"] = Downgraded(normalize_uec(card), <<>>)
        /\ UpgradeDirected

\* C15, amended: as above, but downgrade takes "1.0" as its only target: it fails for
\* every other target, "2.0" included, even when the source is at that version.
C15_DowngradeTargetsV1Only ==
    pc = "done" =>
        /\ Unsupported => (~out["upgrade"].ok /\ ~out["downgrade"].ok)
        /\ opts.target_version # SCHEMA_VERSION =>
            out["downgrade"] = Err("unsupported target version: " \o opts.target_version)
        /\ AtTarget =>
            /\ out["upgrade"] = Ok(normalize_uec(card))
            /\ opts.target_version = SCHEMA_VERSION =>
                out["downgrade"] = Downgraded(normalize_uec(card), <<>>)
        /\ UpgradeDirected

\* a v2 document whose meta is not an object, target "2.0": upgrade normalizes it,
\* downgrade refuses the target
C15_Witness ==
    /\ pc = "done"
    /\ AtTarget
    /\ opts.target_version = SCHEMA_VERSION_V2
    /\ Get(card, "meta") = Arr(<<>>)
    /\ out["upgrade"].ok
    /\ Get(out["upgrade"].value, "meta") = Obj(EmptyMap)
    /\ ~out["downgrade"].ok


(***************************************************************************)
(* Claims C16, C17 (SpecValidate)                                          *)
(***************************************************************************)
RequiredError(field) == push_error("meta." \o field, "is required in strict mode")

\* meta is an object that holds the field as a number
HeldAsNumber(field) == is_number(Get(Get(card, "meta"), field))

\* C16: strict validation of a v2 document reports one required error for
\* meta.originalCreatedAt and one for meta.originalUpdatedAt unless meta is an object
\* holding that field as a number, both when meta is absent; non-strict v2 validation
\* reports neither.
C16_StrictMetaRequired ==
    (pc # "start" /\ is_object(card) /\ IsStr(CardVersion, SCHEMA_VERSION_V2)) =>
        \A field \in {"originalCreatedAt", "originalUpdatedAt"} :
            Count(out["validate"].errors, RequiredError(field)) =
                IF opts.strict /\ ~HeldAsNumber(field) THEN 1 ELSE 0

\* strict validation of a v2 document without meta reports both required errors
C16_Witness ==
    /\ pc # "start"
    /\ is_object(card)
    /\ IsStr(CardVersion, SCHEMA_VERSION_V2)
    /\ opts.strict
    /\ Get(card, "meta") = None
    /\ Has(out["validate"].errors, RequiredError("originalCreatedAt"))
    /\ Has(out["validate"].errors, RequiredError("originalUpdatedAt"))


\* the errors of the strict list that the non-strict list has too
Shared(strict_errors, base_errors) ==
    LET InBase(e) == e \in SeqToSet(base_errors)
    IN SelectSeq(strict_errors, InBase)

\* C17: every error of validate(D, strict = false) is reported by validate(D, strict =
\* true) as often and in the same relative order: strict mode only adds errors, and a
\* document that passes strict validation passes non-strict validation.
C17_StrictOnlyAdds ==
    (pc # "start" /\ opts.strict) =>
        LET base == validate_uec(card, FALSE)
        IN /\ Shared(out["validate"].errors, base.errors) = base.errors
           /\ out["validate"].ok => base.ok

\* strict validation repeats the errors of non-strict validation and adds some
C17_Witness ==
    /\ pc # "start"
    /\ opts.strict
    /\ validate_uec(card, FALSE).errors # <<>>
    /\ Len(out["validate"].errors) > Len(validate_uec(card, FALSE).errors) + 2
    /\ ErrorAbout(validate_uec(card, FALSE).errors, "payload")
    /\ Shared(out["validate"].errors, validate_uec(card, FALSE).errors) = validate_uec(card, FALSE).errors


(***************************************************************************)
(* Claims C18, C19, C20 (SpecRoundTrip)                                    *)
(***************************************************************************)
DefaultSceneId == Get(Get(card, "payload"), "defaultSceneId")

\* the indexes of the scenes whose id is the default scene id
DefaultScenes ==
    {i \in 1..Len(ScenesBefore.v) : DefaultSceneId.t = "str" /\ Get(ScenesBefore.v[i], "id") = DefaultSceneId}

\* the scene the claim has folded: the first with the default id, else the first
ChosenScene ==
    IF DefaultScenes # {}
    THEN ScenesBefore.v[CHOOSE i \in DefaultScenes : \A j \in DefaultScenes : i <= j]
    ELSE ScenesBefore.v[1]

\* the scene with selectedVariantId renamed to selectedVariant and null mapped to 0
Renamed(scene) ==
    LET selected == Get(scene, "selectedVariantId")
        kept == DOMAIN scene.v \ {"selectedVariantId"}
    IN Obj([key \in kept \cup (IF selected = None THEN {} ELSE {"selectedVariant"}) |->
                IF key = "selectedVariant" /\ selected # None
                THEN (IF selected = Null THEN Num(0) ELSE selected)
                ELSE scene.v[key]])

\* the conversion succeeded on a payload whose scenes is a non-empty array of scenes
FoldedScenes ==
    /\ Converted
    /\ out["convert"].ok
    /\ ScenesBefore.t = "arr"
    /\ Len(ScenesBefore.v) > 0
    /\ ChosenScene.t = "obj"

SystemPromptBefore == Get(Get(card, "payload"), "systemPrompt")

\* C19: when convert_v1_to_v2 succeeds and payload.systemPrompt is a string starting
\* with "_ID:", the result has promptTemplateId equal to the rest of the string and
\* systemPrompt null; otherwise systemPrompt and promptTemplateId are in the result as
\* they are in the input.
C19_PromptTemplate ==
    (Converted /\ out["convert"].ok) =>
        IF SystemPromptBefore.t = "str" /\ Len(SystemPromptBefore.v) >= 4
           /\ SubSeq(SystemPromptBefore.v, 1, 4) = "_ID:"
        THEN /\ Get(ConvertedPayload, "promptTemplateId")
                    = Str(SubSeq(SystemPromptBefore.v, 5, Len(SystemPromptBefore.v)))
             /\ Get(ConvertedPayload, "systemPrompt") = Null
        ELSE /\ Get(ConvertedPayload, "systemPrompt") = SystemPromptBefore
             /\ Get(ConvertedPayload, "promptTemplateId") = Get(Get(card, "payload"), "promptTemplateId")

\* the template id t1 was taken out of the system prompt "_ID:t1"
C19_Witness ==
    /\ Converted
    /\ out["convert"].ok
    /\ SystemPromptBefore = Str("_ID:t1")
    /\ Get(ConvertedPayload, "promptTemplateId") = Str("t1")
    /\ Get(ConvertedPayload, "systemPrompt") = Null


MetaBefore == Get(card, "meta")

MetaAfter == Get(out["convert"].value, "meta")

\* the v2 provenance fields and the v1 fields they are copied from
Provenance ==
    {<<"originalCreatedAt", "createdAt", "num">>,
     <<"originalUpdatedAt", "updatedAt", "num">>,
     <<"originalSource", "source", "str">>}

\* C20: when convert_v1_to_v2 succeeds, each of meta.originalCreatedAt,
\* meta.originalUpdatedAt and meta.originalSource that is in the input meta keeps its
\* value; an absent one is set to meta.createdAt, meta.updatedAt or meta.source only
\* when that value is a number (the first two) or a string (the third) and stays
\* absent otherwise; every other meta key is unchanged.
C20_ProvenanceCopied ==
    (Converted /\ out["convert"].ok) =>
        /\ MetaAfter.t = "obj"
        /\ \A p \in Provenance :
            Get(MetaAfter, p[1]) =
                IF Get(MetaBefore, p[1]) # None THEN Get(MetaBefore, p[1])
                ELSE IF Get(MetaBefore, p[2]).t = p[3] THEN Get(MetaBefore, p[2])
                ELSE None
        /\ \A key \in (DOMAIN MetaAfter.v \cup (IF MetaBefore.t = "obj" THEN DOMAIN MetaBefore.v ELSE {}))
                        \ MetaOnlyV2 :
            Get(MetaAfter, key) = Get(MetaBefore, key)

\* originalCreatedAt was kept although createdAt differs, originalUpdatedAt was copied,
\* and the other keys are as they were
C20_Witness ==
    /\ Converted
    /\ out["convert"].ok
    /\ Get(MetaBefore, "originalCreatedAt") = Num(5)
    /\ Get(MetaBefore, "createdAt") = Num(1)
    /\ Get(MetaAfter, "originalCreatedAt") = Num(5)
    /\ Get(MetaBefore, "originalUpdatedAt") = None
    /\ Get(MetaAfter, "originalUpdatedAt") = Num(2)
    /\ Get(MetaAfter, "originalSource") = Str("app")
    /\ Get(MetaAfter, "license") = Str("MIT")


(***************************************************************************)
(* Claim C21 (SpecDowngrade)                                               *)
(***************************************************************************)
TemplateBefore == Get(Get(card, "payload"), "promptTemplateId")

PromptBefore == Get(Get(card, "payload"), "systemPrompt")

DowngradedPayload == Get(out["downgrade"].card, "payload")

\* C21: the downgrade of a v2 document sets payload.systemPrompt to "_ID:" followed by
\* promptTemplateId exactly when promptTemplateId is a string and systemPrompt is
\* absent or null; otherwise systemPrompt keeps its input value; promptTemplateId is
\* absent from the result in every case.
C21_TemplateFoldedBack ==
    DowngradedV2 =>
        /\ Get(DowngradedPayload, "promptTemplateId") = None
        /\ Get(DowngradedPayload, "systemPrompt") =
                IF TemplateBefore.t = "str" /\ PromptBefore \in {None, Null}
                THEN Str("_ID:" \o TemplateBefore.v)
                ELSE PromptBefore

\* a null systemPrompt became "_ID:t1"
C21_Witness ==
    /\ DowngradedV2
    /\ TemplateBefore = Str("t1")
    /\ PromptBefore = Null
    /\ Get(DowngradedPayload, "systemPrompt") = Str("_ID:t1")
    /\ Get(DowngradedPayload, "promptTemplateId") = None


(***************************************************************************)
(* Claims C22, C23, C24 (SpecMerge)                                        *)
(***************************************************************************)
MergeDone == pc = "done" /\ "merge" \in DOMAIN out

\* a conflict path that is `path` or lies below it
AtOrBelow(conflict, path) ==
    \/ conflict = path
    \/ StartsWith(conflict, path \o ".")
    \/ StartsWith(conflict, path \o "[")

\* at every key of a that b omits or holds as null, through nested objects, m holds
\* a's value and conflicts has no path at or below the key
RECURSIVE BaseKept(_, _, _, _, _)
BaseKept(a, b, m, path, conflicts) ==
    IF b.t = "null" THEN m = a /\ conflicts = <<>>
    ELSE IF a.t = "obj" /\ b.t = "obj"
    THEN /\ m.t = "obj"
         /\ \A key \in DOMAIN a.v :
                LET next_path == member_path(path, key)
                IN /\ key \in DOMAIN m.v
                   /\ IF key \notin DOMAIN b.v \/ b.v[key] = Null
                      THEN /\ m.v[key] = a.v[key]
                           /\ \A i \in 1..Len(conflicts) : ~AtOrBelow(conflicts[i], next_path)
                      ELSE (a.v[key].t = "obj" /\ b.v[key].t = "obj") =>
                                  BaseKept(a.v[key], b.v[key], m.v[key], next_path,
                                           SelectSeq(conflicts, LAMBDA c : AtOrBelow(c, next_path)))
    ELSE TRUE

\* C22: for every object key of base that incoming omits or carries as null, and for a
\* null incoming root, the merged value at that key equals base's value and no conflict
\* path at or below that key is recorded, for every option combination.
C22_AbsentOrNullKeepsBase ==
    MergeDone => BaseKept(card, other, out["merge"].value, "", out["merge"].conflicts)

\* a.b is null in incoming and a.a differs: base's a.b is kept, only a.a is a conflict
C22_Witness ==
    /\ MergeDone
    /\ card = Obj([a |-> Obj([a |-> Num(1), b |-> Num(2)])])
    /\ other = Obj([a |-> Obj([a |-> Num(2), b |-> Null])])
    /\ opts.conflict = None
    /\ out["merge"].value = Obj([a |-> Obj([a |-> Num(2), b |-> Num(2)])])
    /\ out["merge"].conflicts = <<"a.a">>

\* wherever the merge meets two arrays, through nested objects, the merged array and
\* the conflict entry of the path are as the array mode says
RECURSIVE ArraysMerged(_, _, _, _, _, _)
ArraysMerged(a, b, m, path, conflicts, options) ==
    IF a.t = "arr" /\ b.t = "arr"
    THEN IF IsStr(options.array, "concat")
         THEN m = Arr(a.v \o b.v) /\ ~Has(conflicts, path)
         ELSE m = b /\ (Has(conflicts, path) <=> (a # b /\ path # ""))
    ELSE IF a.t = "obj" /\ b.t = "obj"
    THEN /\ m.t = "obj"
         /\ \A key \in DOMAIN a.v \cap DOMAIN b.v :
                /\ key \in DOMAIN m.v
                /\ ArraysMerged(a.v[key], b.v[key], m.v[key], member_path(path, key), conflicts, options)
    ELSE TRUE

\* C23: where merge meets two arrays at a path, in concat mode the merged array is base's
\* elements followed by incoming's and the path is never a conflict; in any other mode
\* the merged array is incoming's array, and the path is a conflict exactly when the
\* arrays are unequal and the path is not the root, whatever the conflict option is.
C23_ArrayModes ==
    MergeDone => ArraysMerged(card, other, out["merge"].value, "", out["merge"].conflicts, opts)

\* conflict "base" does not keep base's array
C23_Witness ==
    /\ MergeDone
    /\ card = Obj([a |-> Arr(<<Num(1)>>)])
    /\ other = Obj([a |-> Arr(<<Num(2), Num(1)>>)])
    /\ IsStr(opts.conflict, "base")
    /\ opts.array = None
    /\ out["merge"].value = other
    /\ out["merge"].conflicts = <<"a">>

\* C24: the conflicts list of merge is strictly ascending in path order, has no duplicate
\* and never contains the empty path; when base and incoming are not both objects, for
\* example two unequal scalars or two unequal arrays, the list is empty.
C24_ConflictsSortedNoRoot ==
    MergeDone =>
        LET conflicts == out["merge"].conflicts
        IN /\ \A i \in 1..Len(conflicts) : conflicts[i] # ""
           /\ \A i, j \in 1..Len(conflicts) : i < j => StrLess(conflicts[i], conflicts[j])
           /\ ~(card.t = "obj" /\ other.t = "obj") => conflicts = <<>>

\* two unequal arrays at the root: incoming's array, no conflict
C24_Witness ==
    /\ MergeDone
    /\ card = Arr(<<Num(1)>>)
    /\ other = Arr(<<Num(2)>>)
    /\ opts.array = None
    /\ out["merge"].value = other
    /\ out["merge"].conflicts = <<>>


(***************************************************************************)
(* Claim C25 (SpecDiff)                                                    *)
(***************************************************************************)
Longer(left, right) == IF Len(left) >= Len(right) THEN Len(left) ELSE Len(right)

\* the entries the classification calls for, as a set
RECURSIVE Classified(_, _, _)
Classified(a, b, path) ==
    IF a = b THEN {}
    ELSE IF a.t = "obj" /\ b.t = "obj"
    THEN UNION {
            LET next_path == member_path(path, key)
            IN IF key \notin DOMAIN a.v THEN {DiffEntry(next_path, "added", None, b.v[key])}
               ELSE IF key \notin DOMAIN b.v THEN {DiffEntry(next_path, "removed", a.v[key], None)}
               ELSE Classified(a.v[key], b.v[key], next_path)
            : key \in DOMAIN a.v \cup DOMAIN b.v}
    ELSE IF a.t = "arr" /\ b.t = "arr"
    THEN UNION {
            Classified(IF i <= Len(a.v) THEN a.v[i] ELSE Null,
                       IF i <= Len(b.v) THEN b.v[i] ELSE Null,
                       index_path(path, i - 1))
            : i \in 1..Longer(a.v, b.v)}
    ELSE {DiffEntry(IF path = "" THEN "root" ELSE path, "changed", a, b)}

\* C25: diff classifies each difference of the normalized inputs: for two objects a key
\* only in the right value gives one added entry with after set, a key only in the left
\* gives one removed entry with before set, a key in both is recursed into; two arrays
\* are compared index by index up to the longer length, missing elements read as null;
\* any other unequal pair gives one changed entry with both values, at path "root" at
\* the root. There is one entry per path, and the entries ascend in key order (which
\* for the keys of the inputs is the order of the paths).
C25_DiffClassifies ==
    pc # "start" =>
        LET entries == out["diff"]
        IN /\ SeqToSet(entries) = Classified(normalize_uec(card), normalize_uec(other), "")
           /\ \A i, j \in 1..Len(entries) : i < j => StrLess(entries[i].path, entries[j].path)

\* key a only on the left, key b only on the right
C25_Witness ==
    /\ pc # "start"
    /\ card = Obj([a |-> Num(1)])
    /\ other = Obj([b |-> Num(2)])
    /\ out["diff"] = <<DiffEntry("a", "removed", Num(1), None),
                       DiffEntry("b", "added", None, Num(2))>>


(***************************************************************************)
(* Claims C26, C27 (SpecAssets)                                            *)
(***************************************************************************)
\* path p lies strictly below path q
Extends(p, q) ==
    /\ p # q
    /\ \/ q = ""
       \/ StartsWith(p, q \o ".")
       \/ StartsWith(p, q \o "[")

\* C26: extract_assets never descends into a recognized asset: no returned reference
\* has a path that extends the path of another returned reference, and no path is
\* returned twice.
C26_NoNestedReference ==
    pc # "start" =>
        LET assets == out["extract"]
        IN \A i, j \in 1..Len(assets) :
              i # j => assets[i].path # assets[j].path /\ ~Extends(assets[i].path, assets[j].path)

\* the URL inside the remote_url locator of payload.avatar is not reported
C26_Witness ==
    /\ pc = "extracted"
    /\ card = MkObj([type |-> Str("card"),
                     payload |-> MkObj([avatar |-> MkObj([type |-> Str("remote_url"), url |-> Str(RemoteUrl)]),
                                        note |-> Str("http://h/n")])])
    /\ out["extract"] =
          <<AssetReference("payload.avatar", "locator",
                           MkObj([type |-> Str("remote_url"), url |-> Str(RemoteUrl)])),
            AssetReference("payload.note", "string", Str("http://h/n"))>>

\* the value stored at path target, None when there is none
RECURSIVE ValueAt(_, _, _)
ValueAt(value, path, target) ==
    IF path = target THEN value
    ELSE IF value.t = "arr" /\ \E i \in 1..Len(value.v) :
                    index_path(path, i - 1) = target \/ Extends(target, index_path(path, i - 1))
    THEN LET i == CHOOSE i \in 1..Len(value.v) :
                    index_path(path, i - 1) = target \/ Extends(target, index_path(path, i - 1))
         IN ValueAt(value.v[i], index_path(path, i - 1), target)
    ELSE IF value.t = "obj" /\ \E key \in DOMAIN value.v :
                    member_path(path, key) = target \/ Extends(target, member_path(path, key))
    THEN LET key == CHOOSE key \in DOMAIN value.v :
                    member_path(path, key) = target \/ Extends(target, member_path(path, key))
         IN ValueAt(value.v[key], member_path(path, key), target)
    ELSE None

\* the value with everything at the given paths blanked out
RECURSIVE MaskAt(_, _, _)
MaskAt(value, path, paths) ==
    IF path \in paths THEN Str("*")
    ELSE IF value.t = "arr"
    THEN Arr([i \in 1..Len(value.v) |-> MaskAt(value.v[i], index_path(path, i - 1), paths)])
    ELSE IF value.t = "obj"
    THEN Obj([key \in DOMAIN value.v |-> MaskAt(value.v[key], member_path(path, key), paths)])
    ELSE value

\* C27: rewrite_assets calls the mapper exactly once for each reference extract_assets
\* returns, in the same order and with the same path, kind and value; the result holds
\* the mapper's return value at each of those paths and equals the document at every
\* path that is not at or below a recognized asset.
C27_RewriteFollowsExtract ==
    pc = "done" =>
        LET assets == out["extract"]
            paths == {assets[i].path : i \in 1..Len(assets)}
        IN /\ out["calls"] = assets
           /\ \A i \in 1..Len(assets) :
                 ValueAt(out["rewrite"], "", assets[i].path) = call_mapper(opts.mapper, assets[i])
           /\ MaskAt(out["rewrite"], "", paths) = MaskAt(card, "", paths)

\* two assets inside an array are replaced, the number between the keys is kept
C27_Witness ==
    /\ pc = "done"
    /\ opts.mapper = "by_kind"
    /\ card = MkObj([type |-> Str("card"),
                     payload |-> MkObj([avatar |-> Arr(<<Num(1), Str(RemoteUrl)>>),
                                        note |-> Str("http://h/n")])])
    /\ Len(out["calls"]) = 2
    /\ out["rewrite"] = MkObj([type |-> Str("card"),
                               payload |-> MkObj([avatar |-> Arr(<<Num(1), Str("string:payload.avatar[1]")>>),
                                                  note |-> Str("string:payload.note")])])


(***************************************************************************)
(* validate as v1, convert to v2, validate the result                      *)
(***************************************************************************)
\* a v1 scene that also carries the v2 key selectedVariant
SceneWithV2Key == MkObj([id |-> Str("s2"), content |-> Str("hi"), selectedVariant |-> Num(5)])

VoiceConfigV1 == MkObj([source |-> Str("user"), providerId |-> Str("p"), voiceId |-> Str("v")])

\* payloads with the fields of v1 and with fields only the v2 rules look at
UpgradePayloadOpts ==
    {MkObj(f) : f \in [id : {Str("c1")}, name : {Str("C"), Num(1)}, title : {Str("P")},
                       avatar : {None, Str(RemoteUrl)},
                       voiceConfig : {None, VoiceConfigV1},
                       scenes : {None, Arr(<<Scene1>>), Arr(<<SceneWithV2Key>>)},
                       scene : {None, Num(3)},
                       nickname : {None, Str("n"), Num(7)},
                       source : {None, Arr(<<Str("s")>>), Str("s")},
                       characterBook : {None, Num(3)},
                       promptTemplateId : {None, Num(7)}]}

UpgradeMetaOpts ==
    {None,
     MkObj([createdAt |-> Num(1), source |-> Str("app")]),
     MkObj([createdAt |-> Num(1), originalCreatedAt |-> Str("x")])}

UpgradeDocs ==
    {MkObj(f) : f \in [schema : {MkObj([name |-> Str("UEC"), version |-> Str("1.0")])},
                       kind : {Str("character"), Str("persona")},
                       payload : UpgradePayloadOpts,
                       meta : UpgradeMetaOpts]}

InitUpgradeValid ==
    /\ pc = "start"
    /\ card \in UpgradeDocs
    /\ other = Null
    /\ opts = NoOpts
    /\ out = EmptyMap

CheckV1 ==
    /\ pc = "start"
    /\ out' = Insert(out, "validate", validate_uec(card, FALSE))
    /\ pc' = "validated"
    /\ UNCHANGED <<card, other, opts>>

ConvertChecked ==
    /\ pc = "validated"
    /\ out' = Insert(out, "convert", convert_uec_v1_to_v2(card))
    /\ pc' = "converted"
    /\ UNCHANGED <<card, other, opts>>

\* the caller validates the document the conversion returned
CheckConverted ==
    /\ pc = "converted"
    /\ out["convert"].ok
    /\ out' = Insert(out, "revalidate", validate_uec(out["convert"].value, FALSE))
    /\ pc' = "done"
    /\ UNCHANGED <<card, other, opts>>

NextUpgradeValid == CheckV1 \/ ConvertChecked \/ CheckConverted

SpecUpgradeValid == InitUpgradeValid /\ [][NextUpgradeValid]_vars

(***************************************************************************)
(* Claim C28 (SpecUpgradeValid)                                            *)
(***************************************************************************)
\* C28 as stated: for every document that passes non-strict v1 validation, the document
\* convert_v1_to_v2 returns passes non-strict validation as a v2 document, also when
\* the payload or meta carries fields the v1 rules do not check.
C28_Original ==
    (pc = "done" /\ out["validate"].ok) =>
        /\ IsStr(schema_version(out["convert"].value), SCHEMA_VERSION_V2)
        /\ out["revalidate"].ok

\* keys that only the v2 rules check
V2OnlyPayloadKeys == {"scene", "nickname", "source", "characterBook", "promptTemplateId"}

\* the document holds nothing that only the v2 rules check
OnlyV1Fields ==
    LET payload == Get(card, "payload")
        scenes == Get(payload, "scenes")
        meta == Get(card, "meta")
    IN /\ DOMAIN payload.v \cap V2OnlyPayloadKeys = {}
       /\ scenes.t = "arr" => \A i \in 1..Len(scenes.v) : Get(scenes.v[i], "selectedVariant") = None
       /\ meta.t = "obj" => Get(meta, "originalCreatedAt") = None

\* C28 as coded: a document that passes non-strict v1 validation and holds no field that
\* only the v2 rules check is converted to a document that passes non-strict v2
\* validation.
C28_ValidWithoutV2Fields ==
    (pc = "done" /\ out["validate"].ok /\ OnlyV1Fields) =>
        /\ IsStr(schema_version(out["convert"].value), SCHEMA_VERSION_V2)
        /\ out["revalidate"].ok

\* a valid v1 character with a scene, an avatar and a voiceConfig became a valid v2 one
C28_Witness ==
    /\ pc = "done"
    /\ out["validate"].ok
    /\ OnlyV1Fields
    /\ IsStr(Get(card, "kind"), "character")
    /\ Get(Get(card, "payload"), "scenes") = Arr(<<Scene1>>)
    /\ Get(Get(card, "payload"), "voiceConfig") = VoiceConfigV1
    /\ Get(Get(out["convert"].value, "payload"), "scene").t = "obj"
    /\ out["revalidate"].ok


(***************************************************************************)
(* validate as v2, downgrade to v1, validate the result                    *)
(***************************************************************************)
RemoteLocator == MkObj([type |-> Str("remote_url"), url |-> Str(RemoteUrl)])

AssetRefLocator == MkObj([type |-> Str("asset_ref"), assetId |-> Str("a1")])

\* a v2 voiceConfig: providerId and voiceId are optional
VoiceConfigV2 == MkObj([source |-> Str("user"), voiceName |-> Str("V")])

\* payloads with the fields of v2, in the shapes v2 allows, and with the v1 key rules
LowerPayloadOpts ==
    {MkObj(f) : f \in [id : {Str("c1")}, name : {Str("C"), Num(1)}, title : {Str("P")},
                       avatar : {None, Null, Str(RemoteUrl), RemoteLocator},
                       chatBackground : {None, AssetRefLocator},
                       voiceConfig : {None, VoiceConfigV1, VoiceConfigV2},
                       scene : {None, Null,
                                MkObj([id |-> Str("s1"), content |-> Str("hi"), selectedVariant |-> Num(0)]),
                                MkObj([id |-> Str("s2"), content |-> Str("yo"), selectedVariant |-> Str("v1"),
                                       variants |-> Arr(<<Variant("v1")>>)])},
                       promptTemplateId : {None, Str("t1")},
                       nickname : {None, Str("n")},
                       rules : {None, Arr(<<Str("r1")>>), Num(3)}]}

LowerMetaOpts ==
    {None, MkObj([createdAt |-> Num(1), originalCreatedAt |-> Num(1), originalSource |-> Str("app")])}

LowerDocs ==
    {MkObj(f) : f \in [schema : {MkObj([name |-> Str("UEC"), version |-> Str("2.0")])},
                       kind : {Str("character"), Str("persona")},
                       payload : LowerPayloadOpts,
                       meta : LowerMetaOpts]}

InitDowngradeValid ==
    /\ pc = "start"
    /\ card \in LowerDocs
    /\ other = Null
    /\ opts \in [keep_rules : BOOLEAN]
    /\ out = EmptyMap

CheckV2 ==
    /\ pc = "start"
    /\ out' = Insert(out, "validate", validate_uec(card, FALSE))
    /\ pc' = "validated"
    /\ UNCHANGED <<card, other, opts>>

DowngradeChecked ==
    /\ pc = "validated"
    /\ out' = Insert(out, "downgrade", downgrade_uec(card, SCHEMA_VERSION, opts.keep_rules))
    /\ pc' = "downgraded"
    /\ UNCHANGED <<card, other, opts>>

\* the caller validates the card the downgrade returned
CheckDowngraded ==
    /\ pc = "downgraded"
    /\ out["downgrade"].ok
    /\ out' = Insert(out, "revalidate", validate_uec(out["downgrade"].card, FALSE))
    /\ pc' = "done"
    /\ UNCHANGED <<card, other, opts>>

NextDowngradeValid == CheckV2 \/ DowngradeChecked \/ CheckDowngraded

SpecDowngradeValid == InitDowngradeValid /\ [][NextDowngradeValid]_vars

(***************************************************************************)
(* Claim C29 (SpecDowngradeValid)                                          *)
(***************************************************************************)
\* C29 as stated: for every document that passes non-strict v2 validation, the card
\* downgrade(D, "1.0", keep_rules) returns passes non-strict validation as a v1
\* document, also when D uses v2-only shapes in fields that are kept.
C29_Original ==
    (pc = "done" /\ out["validate"].ok) =>
        /\ IsStr(schema_version(out["downgrade"].card), SCHEMA_VERSION)
        /\ out["revalidate"].ok

\* the fields the downgrade keeps hold shapes that v1 allows as well
V1Shapes ==
    LET payload == Get(card, "payload")
        voice_config == Get(payload, "voiceConfig")
        rules == Get(payload, "rules")
    IN /\ Get(payload, "avatar").t # "obj"
       /\ Get(payload, "chatBackground").t # "obj"
       /\ voice_config # None => Get(voice_config, "providerId").t = "str" /\ Get(voice_config, "voiceId").t = "str"
       /\ rules \in {None, Null} \/ rules.t = "arr"

\* C29 as coded: a document that passes non-strict v2 validation and whose avatar,
\* chatBackground, voiceConfig and rules hold shapes the v1 rules allow is downgraded
\* to a card that passes non-strict v1 validation.
C29_ValidWithV1Shapes ==
    (pc = "done" /\ out["validate"].ok /\ V1Shapes) =>
        /\ IsStr(schema_version(out["downgrade"].card), SCHEMA_VERSION)
        /\ out["revalidate"].ok

\* a valid v2 character with a scene, a template id and a nickname became a valid v1 one
C29_Witness ==
    /\ pc = "done"
    /\ out["validate"].ok
    /\ V1Shapes
    /\ IsStr(Get(card, "kind"), "character")
    /\ Get(Get(card, "payload"), "avatar") = Str(RemoteUrl)
    /\ Get(Get(card, "payload"), "voiceConfig") = VoiceConfigV1
    /\ Get(Get(card, "payload"), "scene").t = "obj"
    /\ Get(Get(card, "payload"), "nickname") = Str("n")
    /\ Get(Get(out["downgrade"].card, "payload"), "scenes").t = "arr"
    /\ out["revalidate"].ok


(***************************************************************************)
(* Claim C30 (SpecDiff)                                                    *)
(***************************************************************************)
\* C30 as stated: diff(A, B) is the empty list only if normalize(A) equals
\* normalize(B); two documents that differ after normalization, arrays that differ only
\* by trailing null elements included, produce at least one diff entry.
C30_Original ==
    (pc # "start" /\ out["diff"] = <<>>) => normalize_uec(card) = normalize_uec(other)

\* the items without their trailing nulls
RECURSIVE DropTrailingNulls(_)
DropTrailingNulls(items) ==
    IF items # <<>> /\ items[Len(items)] = Null
    THEN DropTrailingNulls(SubSeq(items, 1, Len(items) - 1))
    ELSE items

\* the value with the trailing nulls of every array dropped
RECURSIVE Trimmed(_)
Trimmed(value) ==
    IF value.t = "arr" THEN Arr(DropTrailingNulls([i \in 1..Len(value.v) |-> Trimmed(value.v[i])]))
    ELSE IF value.t = "obj" THEN Obj([key \in DOMAIN value.v |-> Trimmed(value.v[key])])
    ELSE value

\* C30 as coded: diff(A, B) is the empty list exactly when normalize(A) and normalize(B)
\* are equal up to trailing null elements of their arrays.
C30_EmptyUpToTrailingNulls ==
    pc # "start" =>
        (out["diff"] = <<>> <=> Trimmed(normalize_uec(card)) = Trimmed(normalize_uec(other)))

\* [1] and [1, null] differ and have an empty diff
C30_Witness ==
    /\ pc # "start"
    /\ card = Arr(<<Num(1)>>)
    /\ other = Arr(<<Num(1), Null>>)
    /\ normalize_uec(card) # normalize_uec(other)
    /\ out["diff"] = <<>>

====
